---- MODULE Spec2Model ----
(***************************************************************************)
(* pc-maintenance-dashboard: the structured-store mutator and the browser  *)
(* cleaner of browser_cleaner.py (BrowserCleaner), the duplicate index of  *)
(* duplicate_finder.py (DuplicateFinder), the duplicate-finder dialog of   *)
(* main_window_simple.py with its scan threads and its results tree, and   *)
(* the temporary-file cleaner of system_utils.py (FileCleanup).            *)
(***************************************************************************)
EXTENDS Integers, Sequences, FiniteSets, TLC

(***************************************************************************)
(* Part 1. BrowserCleaner._clear_sqlite_database                           *)
(*                                                                         *)
(* A file is a record [kind, rows]: kind "db" is a well-formed database    *)
(* whose table t holds rows[t] rows (-1: the schema has no table t), kind  *)
(* "partial" is a truncated or torn file, kind "absent" is no file.        *)
(***************************************************************************)

\* Largest number of rows a table of a modelled store holds.
MaxRows == 2

Tables == {"cookies", "urls", "visits", "downloads"}

DataTypes == {"cookies", "history", "downloads", "cache"}

NoRows == [t \in Tables |-> -1]

Absent == [kind |-> "absent", rows |-> NoRows]

Partial == [kind |-> "partial", rows |-> NoRows]

Database(schema, n) == [kind |-> "db", rows |-> [t \in Tables |-> IF t \in schema THEN n ELSE -1]]

\* The schemas of the stores the cleaner is pointed at: a cookie store, a
\* history store, a download-history store, a combined history store, a
\* store with one of the history tables only, and a store with none of the
\* tables the statements name.
Schemas == {{"cookies"}, {"urls", "visits"}, {"downloads"},
            {"urls", "visits", "downloads"}, {"urls"}, {}}

Stores == {Database(s, n) : s \in Schemas, n \in 1..MaxRows}

\* The points at which a step of the try block can fail: shutil.copy2 before
\* it creates the destination, while it writes it, or in copystat after the
\* data is written; sqlite3.connect; the first or second DELETE; the commit;
\* os.remove of the backup.
Faults == {"none", "copy_open", "copy_write", "copy_stat", "connect",
           "delete1", "delete2", "commit", "remove"}

VARIABLES
    db,         \* the store file at db_path
    backup,     \* the file at db_path + '.backup'
    conn,       \* "closed" | "open": the sqlite3 connection of the call
    pending,    \* tables deleted in the connection's open transaction
    spc,        \* position of the call: "idle", a step of the try block, "except", "done"
    stype,      \* argument data_type
    sfault,     \* the step that fails in this call
    stmt,       \* index of the next delete statement
    sfailed,    \* the exception caught by the handler ("none": none)
    sraised,    \* the exception that left the call ("none": it returned)
    spre,       \* history: the store file when the call began
    slog        \* history: the steps that completed, in order

storeVars == <<db, backup, conn, pending, spc, stype, sfault, stmt, sfailed, sraised, spre, slog>>

\* The state of the duplicate index and of the tree it scans (part 2).
VARIABLES
    fs,                     \* Paths -> file: the tree
    filler,                 \* length of the filler run
    env,                    \* changes other processes may still make
    file_hashes,            \* self.file_hashes: the buckets in insertion order, <<[hash, files]>>
    filler_hashed,          \* the single-file buckets of the filler run in self.file_hashes
    scanned_files,          \* self.scanned_files
    total_files,            \* self.total_files
    duplicates_found,       \* self.duplicates_found, <<[hash, files]>>
    total_duplicate_size,   \* self.total_duplicate_size
    phase,                  \* "idle" | "scanning" | "done" | "raised": scan_directory's call
    pos,                    \* index in WalkOrder of the next entry of the scan loop
    listed,                 \* the files os.walk listed for the scan loop
    args,                   \* the arguments of the call: [min_size]
    result,                 \* the mapping the last completed call returned
    scansLeft,              \* scan_directory calls still to be made
    delsLeft,               \* paths that may still be handed to delete_selected_duplicates
    del_result,             \* the dict delete_selected_duplicates returned, until the next scan begins
    hashlog,                \* history: Paths -> what calculate_file_hash saw and returned in this scan
    prev,                   \* history: the completed scan before this one, [has, result, args, scanned, size],
                            \* and the paths removed between the two
    removed,                \* history: the paths delete_selected_duplicates removed since the last scan began
    del_call,               \* history: the last delete_selected_duplicates call since the last scan began,
                            \* [made, selected, locked, before, session]
    held                    \* history: the dict objects scan_directory returned to its callers, in order,
                            \* [then, now, stored]: the contents at the return, the contents now, and
                            \* whether self.duplicates_found is this object

scanVars == <<fs, filler, env, file_hashes, filler_hashed, scanned_files, total_files,
              duplicates_found, total_duplicate_size, phase, pos, listed, args, result,
              scansLeft, delsLeft, del_result, hashlog, prev, removed, del_call, held>>

\* The state of the duplicate-finder dialog of the main window and of its
\* scan threads (part 3).
VARIABLES
    dialog,         \* "closed" | "open": the modal dialog of show_duplicate_finder
    progress,       \* self.scan_progress: [shown, canceled]
    results,        \* "hidden" | "shown": self.results_widget with the tree and Delete Selected
    scan_thread,    \* self.scan_thread: the worker it refers to, 0 for None
    workers,        \* worker -> [state, emitted, completions, cancelled, delivered, displayed]: the
                    \* DuplicateScanThread objects on self.duplicate_finder; state and emitted are the
                    \* thread's, and the rest is history: the scan_completed signals it emitted, whether
                    \* Cancel was pressed while it ran, and whether _on_scan_completed received and
                    \* displayed its mapping
    queue,          \* the signals of the workers queued for the GUI thread, <<[kind, from, dup]>>
    completed,      \* number of scan_directory calls that returned to a worker
    ui_delete       \* history: the last delete_selected_duplicates call of the dialog, [made, inflight, ready]

uiVars == <<dialog, progress, results, scan_thread, workers, queue, completed, ui_delete>>

\* The temporary-file cleaner of system_utils.py (part 4).
VARIABLES
    tfs,                \* name -> file of the temp roots: [exists, root, readable, age, critical, fate]
    temp_dirs,          \* self.temp_dirs: the roots in the order they are cleaned
    min_file_age_hours, \* self.min_file_age_hours
    tpc,                \* "idle" | "cleaning" | "returned": position of clean_temp_files
    tdir,               \* index in temp_dirs of the root being walked
    tqueue,             \* the files os.walk listed in that root and the loop has not reached yet
    cleaned_size,       \* self.cleaned_size
    cleaned_files,      \* self.cleaned_files
    skipped_files,      \* self.skipped_files
    permission_errors,  \* self.permission_errors
    in_use_errors,      \* self.in_use_errors
    errors,             \* the errors list of the call: the names of the files it reports
    tbefore,            \* history: tfs when clean_temp_files was called
    tlast               \* history: what the loop did with the file of its last turn

tempVars == <<tfs, temp_dirs, min_file_age_hours, tpc, tdir, tqueue, cleaned_size, cleaned_files,
              skipped_files, permission_errors, in_use_errors, errors, tbefore, tlast>>

\* The browser cleaner of browser_cleaner.py around the mutator (part 5).
VARIABLES
    bdisk,          \* path -> [kind, store, files, locked]: the data paths of the browsers
    browsers,       \* self.browsers: the names of the detected browsers
    bpc,            \* "idle" | "cleaning" | "returned": position of clean_browser_data
    browser_name,   \* argument browser_name
    bleft,          \* entries of data_types the loop has not reached yet, at most
    bcleaned_size,  \* self.cleaned_size
    bcleaned_files, \* self.cleaned_files
    berrors,        \* the errors list of the call
    cleaned_types,  \* the cleaned_types list of the call
    bresult,        \* the dictionary the last call returned
    bpre,           \* history: bdisk when clean_browser_data was called
    blast           \* history: what the loop did in its last turn

browserVars == <<bdisk, browsers, bpc, browser_name, bleft, bcleaned_size, bcleaned_files,
                 berrors, cleaned_types, bresult, bpre, blast>>

\* The walk of scan_directory with its filters (part 6).
VARIABLES
    wtree,      \* name -> file below the scanned root: [exists, dirs, name, size]
    wroot,      \* the name of the scanned root directory
    wargs,      \* the arguments of the call: [given, extensions, min_size]
    wpc,        \* "idle" | "done": position of scan_directory
    wmembers    \* the files that appear in a group of the returned mapping

walkVars == <<wtree, wroot, wargs, wpc, wmembers>>

\* The progress reports of scan_directory (part 7).
VARIABLES
    ptotal,     \* self.total_files: what count_files_in_directory returned
    pfiles,     \* the candidate files the scan loop meets
    pscanned,   \* self.scanned_files
    ppc,        \* "idle" | "scanning" | "done": position of scan_directory
    pemit       \* history: the calls of progress_callback, [count, scanned, percent, prev]

progVars == <<ptotal, pfiles, pscanned, ppc, pemit>>

\* The results tree of the duplicate-finder dialog (part 8).
VARIABLES
    tshape,     \* the mapping on display: the number of files of each of its groups
    tview,      \* self.duplicates_tree: item -> [present, checkable, check], check is the check-state
                \* data of column 0: "unset" | "checked" | "unchecked"
    tdisk,      \* the items whose file is on disk
    tpassed     \* history: the items whose path was handed to delete_selected_duplicates

treeVars == <<tshape, tview, tdisk, tpassed>>

\* data_type -> the tables of its DELETE statements, in order.
Statements(data_type) ==
    CASE data_type = "cookies" -> <<"cookies">>
      [] data_type = "history" -> <<"urls", "visits">>
      [] data_type = "downloads" -> <<"downloads">>
      [] OTHER -> <<>>

\* The store after a commit of DELETE FROM t for every t in tabs.
Deleted(file, tabs) == [file EXCEPT !.rows = [t \in Tables |-> IF t \in tabs THEN 0 ELSE file.rows[t]]]

\* The fully committed result of the call on file.
Committed(file, data_type) == Deleted(file, {Statements(data_type)[i] : i \in 1..Len(Statements(data_type))})

\* Faulty variant: the backup is removed before the transaction is committed.
AfterStep_RemoveFirst(step) ==
    CASE step = "copy" -> "connect"
      [] step = "connect" -> "execute"
      [] step = "execute" -> "remove"
      [] step = "remove" -> "commit"
      [] step = "commit" -> "close"
      [] step = "close" -> "done"

\* The statement order of the try block: the step that follows step when it succeeds.
AfterStep(step) ==
    CASE step = "copy" -> "connect"
      [] step = "connect" -> "execute"
      [] step = "execute" -> "commit"
      [] step = "commit" -> "close"
      [] step = "close" -> "remove"
      [] step = "remove" -> "done"

\* Faulty variant: the handler leaves the store as the failed call left it.
RestoredStore_NoRestore(store, bak) == store

\* shutil.move(backup_path, db_path) when the backup exists: the store after the handler.
RestoredStore(store, bak) == IF bak.kind # "absent" THEN bak ELSE store

\* Faulty variant: the handler copies the backup over the store and keeps it.
RestoredBackup_Kept(bak) == bak

\* The backup after the handler: moved away when it existed.
RestoredBackup(bak) == Absent

\* raise e
Reraised(e) == e

StoreInit ==
    /\ db \in Stores
    /\ backup \in {Absent} \cup Stores
    /\ conn = "closed"
    /\ pending = {}
    /\ spc = "idle"
    /\ stype = "cache"
    /\ sfault = "none"
    /\ stmt = 1
    /\ sfailed = "none"
    /\ sraised = "none"
    /\ spre = db
    /\ slog = <<>>

\* _clear_sqlite_database(db_path, data_type) is called.
StoreCall ==
    /\ spc = "idle"
    /\ \E t \in DataTypes, f \in Faults :
        /\ stype' = t
        /\ sfault' = f
    /\ spc' = "copy"
    /\ spre' = db
    /\ slog' = <<>>
    /\ stmt' = 1
    /\ sfailed' = "none"
    /\ sraised' = "none"
    /\ conn' = "closed"
    /\ pending' = {}
    /\ UNCHANGED <<db, backup>>
    /\ UNCHANGED scanVars
    /\ UNCHANGED <<uiVars, tempVars, browserVars, walkVars, progVars, treeVars>>

\* shutil.copy2(db_path, backup_path)
StoreCopy ==
    /\ spc = "copy"
    /\ backup' = CASE sfault = "copy_open" -> backup
                   [] sfault = "copy_write" -> Partial
                   [] OTHER -> db
    /\ IF sfault \in {"copy_open", "copy_write", "copy_stat"}
       THEN /\ spc' = "except"
            /\ sfailed' = "copy"
            /\ slog' = slog
       ELSE /\ spc' = AfterStep("copy")
            /\ sfailed' = sfailed
            /\ slog' = Append(slog, "copy")
    /\ UNCHANGED <<db, conn, pending, stype, sfault, stmt, sraised, spre>>
    /\ UNCHANGED scanVars
    /\ UNCHANGED <<uiVars, tempVars, browserVars, walkVars, progVars, treeVars>>

\* conn = sqlite3.connect(db_path); cursor = conn.cursor()
StoreConnect ==
    /\ spc = "connect"
    /\ IF sfault = "connect"
       THEN /\ spc' = "except"
            /\ sfailed' = "connect"
            /\ UNCHANGED <<conn, slog>>
       ELSE /\ spc' = AfterStep("connect")
            /\ conn' = "open"
            /\ slog' = Append(slog, "connect")
            /\ sfailed' = sfailed
    /\ UNCHANGED <<db, backup, pending, stype, sfault, stmt, sraised, spre>>
    /\ UNCHANGED scanVars
    /\ UNCHANGED <<uiVars, tempVars, browserVars, walkVars, progVars, treeVars>>

\* cursor.execute("DELETE FROM ..."), one statement per step. A statement
\* fails when the store is locked (the injected fault), when the file is no
\* database, or when the schema has no such table.
StoreExecute ==
    /\ spc = "execute"
    /\ IF stmt > Len(Statements(stype))
       THEN /\ spc' = AfterStep("execute")
            /\ UNCHANGED <<pending, stmt, sfailed, slog>>
       ELSE LET t == Statements(stype)[stmt] IN
            IF \/ sfault = "delete1" /\ stmt = 1
               \/ sfault = "delete2" /\ stmt = 2
               \/ db.kind # "db"
               \/ db.rows[t] = -1
            THEN /\ spc' = "except"
                 /\ sfailed' = "delete"
                 /\ UNCHANGED <<pending, stmt, slog>>
            ELSE /\ pending' = pending \cup {t}
                 /\ stmt' = stmt + 1
                 /\ slog' = Append(slog, "delete")
                 /\ UNCHANGED <<spc, sfailed>>
    /\ UNCHANGED <<db, backup, conn, stype, sfault, sraised, spre>>
    /\ UNCHANGED scanVars
    /\ UNCHANGED <<uiVars, tempVars, browserVars, walkVars, progVars, treeVars>>

\* conn.commit(). A failing commit may have written part of its pages.
StoreCommit ==
    /\ spc = "commit"
    /\ IF sfault = "commit"
       THEN /\ \E torn \in BOOLEAN : db' = IF torn THEN Partial ELSE db
            /\ spc' = "except"
            /\ sfailed' = "commit"
            /\ UNCHANGED <<pending, slog>>
       ELSE /\ db' = IF db.kind = "db" THEN Deleted(db, pending) ELSE db
            /\ pending' = {}
            /\ spc' = AfterStep("commit")
            /\ slog' = Append(slog, "commit")
            /\ sfailed' = sfailed
    /\ UNCHANGED <<backup, conn, stype, sfault, stmt, sraised, spre>>
    /\ UNCHANGED scanVars
    /\ UNCHANGED <<uiVars, tempVars, browserVars, walkVars, progVars, treeVars>>

\* conn.close()
StoreClose ==
    /\ spc = "close"
    /\ conn' = "closed"
    /\ spc' = AfterStep("close")
    /\ slog' = Append(slog, "close")
    /\ UNCHANGED <<db, backup, pending, stype, sfault, stmt, sfailed, sraised, spre>>
    /\ UNCHANGED scanVars
    /\ UNCHANGED <<uiVars, tempVars, browserVars, walkVars, progVars, treeVars>>

\* if os.path.exists(backup_path): os.remove(backup_path)
StoreRemoveBackup ==
    /\ spc = "remove"
    /\ IF backup.kind # "absent" /\ sfault = "remove"
       THEN /\ spc' = "except"
            /\ sfailed' = "remove"
            /\ UNCHANGED <<backup, slog>>
       ELSE /\ backup' = Absent
            /\ spc' = AfterStep("remove")
            /\ slog' = IF backup.kind # "absent" THEN Append(slog, "remove") ELSE slog
            /\ sfailed' = sfailed
    /\ UNCHANGED <<db, conn, pending, stype, sfault, stmt, sraised, spre>>
    /\ UNCHANGED scanVars
    /\ UNCHANGED <<uiVars, tempVars, browserVars, walkVars, progVars, treeVars>>

\* except Exception as e: restore the backup when it exists, raise e. The
\* connection is not closed here; its open transaction is never committed.
StoreExcept ==
    /\ spc = "except"
    /\ db' = RestoredStore(db, backup)
    /\ backup' = IF backup.kind # "absent" THEN RestoredBackup(backup) ELSE backup
    /\ pending' = {}
    /\ sraised' = Reraised(sfailed)
    /\ spc' = "done"
    /\ UNCHANGED <<conn, stype, sfault, stmt, sfailed, spre, slog>>
    /\ UNCHANGED scanVars
    /\ UNCHANGED <<uiVars, tempVars, browserVars, walkVars, progVars, treeVars>>

\* The call has left; the caller may call again.
StoreReturn ==
    /\ spc = "done"
    /\ spc' = "idle"
    /\ conn' = "closed"
    /\ UNCHANGED <<db, backup, pending, stype, sfault, stmt, sfailed, sraised, spre, slog>>
    /\ UNCHANGED scanVars
    /\ UNCHANGED <<uiVars, tempVars, browserVars, walkVars, progVars, treeVars>>

StoreNext ==
    \/ StoreCall
    \/ StoreCopy
    \/ StoreConnect
    \/ StoreExecute
    \/ StoreCommit
    \/ StoreClose
    \/ StoreRemoveBackup
    \/ StoreExcept
    \/ StoreReturn

(***************************************************************************)
(* Part 2. DuplicateFinder                                                 *)
(*                                                                         *)
(* The scanned directory holds the files of Paths and a run of `filler`    *)
(* further files of pairwise different content (each is a candidate, is    *)
(* hashed into a bucket of its own and never changes).  os.walk lists      *)
(* a.txt and b.txt, then the run, then c.txt.  A file is a record          *)
(* [exists, tag, size, mtime]; two files have the same bytes iff they have *)
(* the same tag and size.                                                  *)
(***************************************************************************)

\* max_file_size of calculate_file_hash
MaxFileSize == 104857600

\* chunk length of f.read in calculate_file_hash
ChunkSize == 4096

\* max_files of count_files_in_directory
MaxFiles == 10000

\* max_scan_files of scan_directory
MaxScanFiles == 10000

\* default min_size of scan_directory
DefaultMinSize == 1024

\* Largest modification time of a modelled file (times are 1..MaxMtime).
MaxMtime == 2

\* Number of scan_directory calls in one behaviour of the quiet tree.
MaxScans == 2

\* Number of paths handed to delete_selected_duplicates in one behaviour, in
\* one call or in several.
MaxSelected == 2

\* Number of changes other processes make to the tree during a scan.
MaxEnv == 1

Paths == {"a.txt", "b.txt", "c.txt"}

FillerRun == "*"

WalkOrder == <<"a.txt", "b.txt", FillerRun, "c.txt">>

Tags == {"X", "Y"}

\* min_size arguments the caller passes.
MinSizes == {0, DefaultMinSize}

NoFile == [exists |-> FALSE, tag |-> "X", size |-> 0, mtime |-> 0]

\* No delete_selected_duplicates call was made since the last scan began.
NoSession == [scanned_files |-> 0, total_files |-> 0, duplicates_found |-> <<>>, total_duplicate_size |-> 0]

NoCall == [made |-> FALSE, selected |-> <<>>, locked |-> {}, before |-> [p \in Paths |-> NoFile],
           session |-> NoSession]

File(tag, size, mtime) == [exists |-> TRUE, tag |-> tag, size |-> size, mtime |-> mtime]

\* The contents files start with: two contents of one ordinary size, a
\* content below the default minimum size, a content of exactly the hash
\* cutoff and one a byte larger.
Contents == {<<"X", 2 * DefaultMinSize>>, <<"Y", 2 * DefaultMinSize>>,
             <<"X", DefaultMinSize \div 2>>, <<"X", MaxFileSize>>, <<"X", MaxFileSize + 1>>}

\* The sizes a file can grow to.
GrownSizes == {MaxFileSize, MaxFileSize + 1}

\* The filler runs of the large trees: with them the tree holds fewer
\* candidates than the ceilings, exactly as many, or more.
BigFillers == {MaxScanFiles - 3, MaxScanFiles - 2, MaxScanFiles - 1}

None == [tag |-> "none", size |-> -1]

NoHash == [checked |-> -1, read |-> -1, digest |-> None]

Min(a, b) == IF a < b THEN a ELSE b

\* hashlib.md5 of the bytes read: one digest per content (no collisions
\* among the contents of the model).
Md5(tag, length) == [tag |-> tag, size |-> length]

\* Faulty variant: the size is not checked again while the file is read.
calculate_file_hash_NoRecheck(file, readLen) ==
    IF ~file.exists THEN None
    ELSE IF file.size > MaxFileSize THEN None
    ELSE Md5(file.tag, readLen)

\* calculate_file_hash(file_path) of a file that holds readLen bytes by the
\* time the read loop reaches its end.  bytes_read grows by one chunk per
\* turn and ends at readLen, so the check of line 39 fires in some turn iff
\* it fires for the last value of bytes_read.
calculate_file_hash(file, readLen) ==
    IF ~file.exists THEN None
    ELSE IF file.size > MaxFileSize THEN None
    ELSE IF Min(((readLen + ChunkSize - 1) \div ChunkSize) * ChunkSize, readLen) > MaxFileSize THEN None
    ELSE Md5(file.tag, readLen)

\* get_file_info(file_path): the fields of os.stat the model keeps.
get_file_info(path, file) == [path |-> path, size |-> file.size, modified |-> file.mtime]

Keys(d) == {d[i].hash : i \in 1..Len(d)}

Lookup(d, h) == (CHOOSE i \in 1..Len(d) : d[i].hash = h)

\* self.file_hashes[file_hash].append(file_info) on a defaultdict(list)
DictAppend(d, h, info) ==
    IF h \in Keys(d)
    THEN [d EXCEPT ![Lookup(d, h)].files = Append(@, info)]
    ELSE Append(d, [hash |-> h, files |-> <<info>>])

\* A candidate of both loops: os.path.getsize succeeds and the size filter passes.
IsCandidate(file, min_size) == file.exists /\ file.size >= min_size

RECURSIVE CountFrom(_, _, _, _, _)
\* The loop of count_files_in_directory from entry i of the walk on, with
\* `count` files counted so far.
CountFrom(i, count, tree, run, min_size) ==
    IF i > Len(WalkOrder) THEN count
    ELSE IF WalkOrder[i] = FillerRun
    THEN IF run = 0 THEN CountFrom(i + 1, count, tree, run, min_size)
         ELSE IF count + run > MaxFiles THEN MaxFiles
         ELSE CountFrom(i + 1, count + run, tree, run, min_size)
    ELSE IF ~tree[WalkOrder[i]].exists THEN CountFrom(i + 1, count, tree, run, min_size)
    ELSE IF count >= MaxFiles THEN MaxFiles
    ELSE IF IsCandidate(tree[WalkOrder[i]], min_size) THEN CountFrom(i + 1, count + 1, tree, run, min_size)
    ELSE CountFrom(i + 1, count, tree, run, min_size)

count_files_in_directory(tree, run, min_size) == CountFrom(1, 0, tree, run, min_size)

\* x put into the list s, which is ordered by the files' modification times,
\* newest first: behind every member that is as new or newer.
InsertNewestFirst(x, s, tree) ==
    LET before == {i \in 1..Len(s) : tree[s[i].path].mtime >= tree[x.path].mtime}
        n == Cardinality(before)
    IN SubSeq(s, 1, n) \o <<x>> \o SubSeq(s, n + 1, Len(s))

RECURSIVE SortNewestFirst(_, _)
\* files.sort(key=lambda x: os.path.getmtime(x['path']), reverse=True): a
\* stable sort by the modification times the files have when it runs.
SortNewestFirst(files, tree) ==
    IF files = <<>> THEN <<>>
    ELSE InsertNewestFirst(files[Len(files)], SortNewestFirst(SubSeq(files, 1, Len(files) - 1), tree), tree)

\* Faulty variant: a bucket of one file is a group too.
IsGroup_One(files) == Len(files) >= 1

\* if len(files) > 1
IsGroup(files) == Len(files) > 1

RECURSIVE SumSizes(_)
SumSizes(files) == IF files = <<>> THEN 0 ELSE files[1].size + SumSizes(Tail(files))

\* Faulty variant: the file that is kept is counted as reclaimable too.
DuplicateSize_All(files) == SumSizes(files)

\* for file_info in files[1:]: self.total_duplicate_size += file_info['size']
DuplicateSize(files) == SumSizes(Tail(files))

\* os.path.getmtime raises for a member that is gone.
SortRaises(files, tree) == \E i \in 1..Len(files) : ~tree[files[i].path].exists

RECURSIVE FindDuplicates(_, _, _, _, _)
\* The loop "Find duplicates" over self.file_hashes from bucket i on:
\* [raised, hashes, duplicates, total].
FindDuplicates(i, hashes, duplicates, total, tree) ==
    IF i > Len(hashes) THEN [raised |-> FALSE, hashes |-> hashes, duplicates |-> duplicates, total |-> total]
    ELSE IF ~IsGroup(hashes[i].files) THEN FindDuplicates(i + 1, hashes, duplicates, total, tree)
    ELSE IF SortRaises(hashes[i].files, tree)
    THEN [raised |-> TRUE, hashes |-> hashes, duplicates |-> duplicates, total |-> total]
    ELSE LET sorted == SortNewestFirst(hashes[i].files, tree)
         IN FindDuplicates(i + 1, [hashes EXCEPT ![i].files = sorted],
                           Append(duplicates, [hash |-> hashes[i].hash, files |-> sorted]),
                           total + DuplicateSize(sorted), tree)

ScanInitCommon ==
    /\ file_hashes = <<>>
    /\ filler_hashed = 0
    /\ scanned_files = 0
    /\ total_files = 0
    /\ duplicates_found = <<>>
    /\ total_duplicate_size = 0
    /\ phase = "idle"
    /\ pos = 1
    /\ listed = {}
    /\ args = [min_size |-> DefaultMinSize]
    /\ result = <<>>
    /\ del_result = [deleted_files |-> 0, deleted_size |-> 0, errors |-> <<>>]
    /\ hashlog = [p \in Paths |-> NoHash]
    /\ prev = [has |-> FALSE, result |-> <<>>, args |-> [min_size |-> DefaultMinSize], scanned |-> 0, size |-> 0,
               removed |-> {}]
    /\ removed = {}
    /\ del_call = NoCall
    /\ held = <<>>

\* A quiet tree of any three files, scanned up to MaxScans times.
ScanInit ==
    /\ ScanInitCommon
    /\ env = 0
    /\ scansLeft = MaxScans
    /\ delsLeft = 0
    /\ filler = 0
    /\ fs \in [Paths -> {File(c[1], c[2], m) : c \in Contents, m \in 1..MaxMtime}]

\* A quiet tree that is scanned, has files deleted and is scanned again:
\* three files of ordinary size, each with the oldest or the newest
\* modification time, alone or around a filler run that brings the tree to
\* the ceilings.
DeleteInit ==
    /\ ScanInitCommon
    /\ env = 0
    /\ scansLeft = MaxScans
    /\ delsLeft = MaxSelected
    /\ \/ /\ filler = 0
          /\ fs \in [Paths -> {File(t, 2 * DefaultMinSize, m) : t \in Tags, m \in {1, MaxMtime}}]
       \/ /\ filler \in BigFillers
          /\ fs \in [Paths -> {File("X", 2 * DefaultMinSize, m) : m \in {1, MaxMtime}}]

\* self.duplicates_found.clear(): the dict object the attribute refers to is
\* emptied in place, and with it the mapping a caller was handed by the
\* `return duplicates` of the scan that stored it.
ClearStored(objects) ==
    [i \in 1..Len(objects) |-> IF objects[i].stored THEN [objects[i] EXCEPT !.now = <<>>] ELSE objects[i]]

\* self.duplicates_found = duplicates: the attribute refers to a new object.
Unstore(objects) == [i \in 1..Len(objects) |-> [objects[i] EXCEPT !.stored = FALSE]]

\* scan_directory up to the scan loop: the reset of the session, the
\* counting pass, the early return.
ScanStart ==
    /\ phase \in {"idle", "done", "raised"}
    /\ scansLeft > 0
    /\ scansLeft' = scansLeft - 1
    /\ \E m \in MinSizes : args' = [min_size |-> m]
    /\ file_hashes' = <<>>
    /\ filler_hashed' = 0
    /\ scanned_files' = 0
    /\ duplicates_found' = <<>>
    /\ total_duplicate_size' = 0
    /\ total_files' = count_files_in_directory(fs, filler, args'.min_size)
    /\ hashlog' = [p \in Paths |-> NoHash]
    /\ prev' = IF phase = "done"
               THEN [has |-> TRUE, result |-> result, args |-> args, scanned |-> scanned_files,
                     size |-> total_duplicate_size, removed |-> removed]
               ELSE [has |-> FALSE, result |-> <<>>, args |-> args, scanned |-> 0, size |-> 0, removed |-> {}]
    /\ removed' = {}
    /\ del_call' = NoCall
    /\ IF total_files' = 0
       THEN /\ phase' = "done"
            /\ result' = <<>>
            /\ held' = Append(ClearStored(held), [then |-> <<>>, now |-> <<>>, stored |-> FALSE])
            /\ UNCHANGED <<pos, listed>>
       ELSE /\ phase' = "scanning"
            /\ pos' = 1
            /\ listed' = {p \in Paths : fs[p].exists}
            /\ held' = ClearStored(held)
            /\ UNCHANGED result
    /\ del_result' = [deleted_files |-> 0, deleted_size |-> 0, errors |-> <<>>]
    /\ UNCHANGED <<fs, filler, env, delsLeft>>
    /\ UNCHANGED storeVars
    /\ UNCHANGED <<uiVars, tempVars, browserVars, walkVars, progVars, treeVars>>

\* One turn of the scan loop for the file at WalkOrder[pos].  While it is
\* read the file may grow (one change of another process).
ScanFile ==
    /\ phase = "scanning"
    /\ pos <= Len(WalkOrder)
    /\ WalkOrder[pos] # FillerRun
    /\ LET p == WalkOrder[pos] IN
       IF p \notin listed
       THEN /\ pos' = pos + 1
            /\ UNCHANGED <<fs, env, file_hashes, scanned_files, hashlog>>
       ELSE IF scanned_files >= MaxScanFiles
       THEN /\ pos' = Len(WalkOrder) + 1
            /\ UNCHANGED <<fs, env, file_hashes, scanned_files, hashlog>>
       ELSE IF ~IsCandidate(fs[p], args.min_size)
       THEN /\ pos' = pos + 1
            /\ UNCHANGED <<fs, env, file_hashes, scanned_files, hashlog>>
       ELSE \E readLen \in {fs[p].size} \cup (IF env > 0 THEN {s \in GrownSizes : s > fs[p].size} ELSE {}) :
            LET file_hash == calculate_file_hash(fs[p], readLen)
                after == IF readLen = fs[p].size THEN fs[p]
                         ELSE [fs[p] EXCEPT !.size = readLen, !.mtime = MaxMtime]
            IN /\ fs' = [fs EXCEPT ![p] = after]
               /\ env' = IF readLen = fs[p].size THEN env ELSE env - 1
               /\ hashlog' = [hashlog EXCEPT ![p] = [checked |-> fs[p].size, read |-> readLen, digest |-> file_hash]]
               /\ file_hashes' = IF file_hash # None
                                 THEN DictAppend(file_hashes, file_hash, get_file_info(p, after))
                                 ELSE file_hashes
               /\ scanned_files' = scanned_files + 1
               /\ pos' = pos + 1
    /\ UNCHANGED <<filler, filler_hashed, total_files, duplicates_found, total_duplicate_size,
                   phase, listed, args, result, scansLeft, delsLeft, del_result, prev, removed, del_call, held>>
    /\ UNCHANGED storeVars
    /\ UNCHANGED <<uiVars, tempVars, browserVars, walkVars, progVars, treeVars>>

\* Faulty variant: the scan loop has no ceiling.
TurnsBeforeCeiling_None(run, scanned) == run

\* if self.scanned_files >= max_scan_files: break, over a run of files: the
\* number of turns that pass the check.
TurnsBeforeCeiling(run, scanned) == Min(run, MaxScanFiles - scanned)

\* The turns of the scan loop for the files of the filler run: each is
\* counted and hashed into a bucket of its own until the ceiling stops the loop.
ScanFiller ==
    /\ phase = "scanning"
    /\ pos <= Len(WalkOrder)
    /\ WalkOrder[pos] = FillerRun
    /\ LET n == TurnsBeforeCeiling(filler, scanned_files) IN
        /\ scanned_files' = scanned_files + n
        /\ filler_hashed' = filler_hashed + n
        /\ pos' = IF n < filler THEN Len(WalkOrder) + 1 ELSE pos + 1
    /\ UNCHANGED <<fs, filler, env, file_hashes, total_files, duplicates_found, total_duplicate_size,
                   phase, listed, args, result, scansLeft, delsLeft, del_result, hashlog, prev, removed, del_call, held>>
    /\ UNCHANGED storeVars
    /\ UNCHANGED <<uiVars, tempVars, browserVars, walkVars, progVars, treeVars>>

\* scan_directory after the scan loop: the groups, the reclaimable bytes, the return.
ScanFinish ==
    /\ phase = "scanning"
    /\ pos > Len(WalkOrder)
    /\ LET found == FindDuplicates(1, file_hashes, <<>>, total_duplicate_size, fs) IN
        /\ file_hashes' = found.hashes
        /\ total_duplicate_size' = found.total
        /\ IF found.raised
           THEN /\ phase' = "raised"
                /\ UNCHANGED <<duplicates_found, result, held>>
           ELSE /\ phase' = "done"
                /\ duplicates_found' = found.duplicates
                /\ result' = found.duplicates
                /\ held' = Append(Unstore(held),
                                  [then |-> found.duplicates, now |-> found.duplicates, stored |-> TRUE])
    /\ UNCHANGED <<fs, filler, env, filler_hashed, scanned_files, total_files, pos, listed, args,
                   scansLeft, delsLeft, del_result, hashlog, prev, removed, del_call>>
    /\ UNCHANGED storeVars
    /\ UNCHANGED <<uiVars, tempVars, browserVars, walkVars, progVars, treeVars>>

PathLists == UNION {[1..n -> Paths] : n \in 0..MaxSelected}

\* Faulty variant: the file is counted as deleted but stays on disk.
RemoveFile_Kept(tree, path) == tree

\* os.remove(file_path)
RemoveFile(tree, path) == [tree EXCEPT ![path] = NoFile]

\* Faulty variant: a path that does not exist is removed and counted too.
Exists_Always(tree, path) == TRUE

\* os.path.exists(file_path)
Exists(tree, path) == tree[path].exists

\* Faulty variant: the first failure ends the loop.
AfterFailure_Abort(selected, i) == Len(selected) + 1

\* except (OSError, PermissionError): the loop goes on with the next path.
AfterFailure(selected, i) == i + 1

RECURSIVE DeleteFrom(_, _, _, _)
\* The loop of delete_selected_duplicates from index i of selected_files on;
\* os.path.getsize or os.remove fails for the paths of `locked`.  acc is
\* [tree, deleted_files, deleted_size, errors, gone].
DeleteFrom(selected, i, locked, acc) ==
    IF i > Len(selected) THEN acc
    ELSE LET path == selected[i] IN
         IF ~Exists(acc.tree, path) THEN DeleteFrom(selected, i + 1, locked, acc)
         ELSE IF path \in locked
         THEN DeleteFrom(selected, AfterFailure(selected, i), locked,
                         [acc EXCEPT !.errors = Append(@, path)])
         ELSE DeleteFrom(selected, i + 1, locked,
                         [acc EXCEPT !.tree = RemoveFile(acc.tree, path),
                                     !.deleted_files = @ + 1,
                                     !.deleted_size = @ + acc.tree[path].size,
                                     !.gone = @ \cup {path}])

\* The fields of the session get_duplicate_summary reads.
Session ==
    [scanned_files |-> scanned_files, total_files |-> total_files,
     duplicates_found |-> duplicates_found, total_duplicate_size |-> total_duplicate_size]

\* Faulty variant: every member of a group is counted as a duplicate.
Redundant_All(files) == Len(files)

\* len(files) - 1
Redundant(files) == Len(files) - 1

RECURSIVE SumRedundant(_)
\* sum(len(files) - 1 for files in self.duplicates_found.values())
SumRedundant(groups) ==
    IF groups = <<>> THEN 0 ELSE Redundant(groups[1].files) + SumRedundant(Tail(groups))

\* get_duplicate_summary().  potential_savings is the byte count the code
\* divides by 1024**2 and by 1024**3 for 'potential_savings_mb' and
\* 'potential_savings_gb'; the dict of the first return has no
\* 'scanned_files' entry.
get_duplicate_summary(session) ==
    IF session.duplicates_found = <<>>
    THEN [total_duplicates |-> 0, duplicate_groups |-> 0, potential_savings |-> 0, scanned_files |-> "absent"]
    ELSE [total_duplicates |-> SumRedundant(session.duplicates_found),
          duplicate_groups |-> Len(session.duplicates_found),
          potential_savings |-> session.total_duplicate_size,
          scanned_files |-> session.scanned_files]

\* Faulty variant: the bytes deleted are taken off the reclaimable bytes.
SessionAfterDelete_Recounted(session, deleted_size) ==
    [session EXCEPT !.total_duplicate_size = @ - deleted_size]

\* delete_selected_duplicates assigns to no attribute of self.
SessionAfterDelete(session, deleted_size) == session

\* delete_selected_duplicates(selected_files).  deleted_size is the byte
\* count the code divides by 1024**2 for 'deleted_size_mb'; an error entry is
\* kept as the path its message names.
DeleteSelected ==
    /\ phase \in {"idle", "done", "raised"}
    /\ \E selected \in PathLists, locked \in SUBSET Paths :
        /\ Len(selected) <= delsLeft
        /\ delsLeft' = delsLeft - Len(selected)
        /\ locked \subseteq {selected[i] : i \in 1..Len(selected)}
        /\ LET out == DeleteFrom(selected, 1, locked,
                                 [tree |-> fs, deleted_files |-> 0, deleted_size |-> 0,
                                  errors |-> <<>>, gone |-> {}]) IN
            /\ fs' = out.tree
            /\ del_result' = [deleted_files |-> out.deleted_files, deleted_size |-> out.deleted_size,
                              errors |-> out.errors]
            /\ removed' = removed \cup out.gone
            /\ del_call' = [made |-> TRUE, selected |-> selected, locked |-> locked, before |-> fs,
                             session |-> Session]
            /\ LET after == SessionAfterDelete(Session, out.deleted_size) IN
                /\ scanned_files' = after.scanned_files
                /\ total_files' = after.total_files
                /\ duplicates_found' = after.duplicates_found
                /\ total_duplicate_size' = after.total_duplicate_size
    /\ UNCHANGED <<filler, env, file_hashes, filler_hashed, phase, pos, listed, args, result,
                   scansLeft, hashlog, prev, held>>
    /\ UNCHANGED storeVars
    /\ UNCHANGED <<uiVars, tempVars, browserVars, walkVars, progVars, treeVars>>

\* Another process sets the modification time of a file during a scan.
EnvTouch ==
    /\ phase = "scanning"
    /\ env > 0
    /\ env' = env - 1
    /\ \E p \in Paths, m \in 1..MaxMtime :
        /\ fs[p].exists
        /\ m # fs[p].mtime
        /\ fs' = [fs EXCEPT ![p].mtime = m]
    /\ UNCHANGED <<filler, file_hashes, filler_hashed, scanned_files, total_files,
                   duplicates_found, total_duplicate_size, phase, pos, listed, args, result,
                   scansLeft, delsLeft, del_result, hashlog, prev, removed, del_call, held>>
    /\ UNCHANGED storeVars
    /\ UNCHANGED <<uiVars, tempVars, browserVars, walkVars, progVars, treeVars>>

\* Another process appends to a file during a scan.
EnvGrow ==
    /\ phase = "scanning"
    /\ env > 0
    /\ env' = env - 1
    /\ \E p \in Paths, s \in GrownSizes :
        /\ fs[p].exists
        /\ s > fs[p].size
        /\ fs' = [fs EXCEPT ![p].size = s, ![p].mtime = MaxMtime]
    /\ UNCHANGED <<filler, file_hashes, filler_hashed, scanned_files, total_files,
                   duplicates_found, total_duplicate_size, phase, pos, listed, args, result,
                   scansLeft, delsLeft, del_result, hashlog, prev, removed, del_call, held>>
    /\ UNCHANGED storeVars
    /\ UNCHANGED <<uiVars, tempVars, browserVars, walkVars, progVars, treeVars>>

\* Another process removes a file during a scan.
EnvRemove ==
    /\ phase = "scanning"
    /\ env > 0
    /\ env' = env - 1
    /\ \E p \in Paths :
        /\ fs[p].exists
        /\ fs' = [fs EXCEPT ![p] = NoFile]
    /\ UNCHANGED <<filler, file_hashes, filler_hashed, scanned_files, total_files,
                   duplicates_found, total_duplicate_size, phase, pos, listed, args, result,
                   scansLeft, delsLeft, del_result, hashlog, prev, removed, del_call, held>>
    /\ UNCHANGED storeVars
    /\ UNCHANGED <<uiVars, tempVars, browserVars, walkVars, progVars, treeVars>>

(***************************************************************************)
(* Part 3. The duplicate-finder dialog of MainWindow and its scan threads.  *)
(*                                                                         *)
(* The handlers run on the GUI thread, one at a time.  A worker is a       *)
(* DuplicateScanThread running scan_directory on the one DuplicateFinder   *)
(* of the window; its signals reach the GUI thread through the event queue.*)
(* The progress dialog is modal: while it is shown, the buttons of the     *)
(* dialog behind it cannot be pressed.                                     *)
(***************************************************************************)

\* Number of scan threads started in one behaviour.
MaxWorkers == 2

\* Number of progress_updated signals one scan emits.
MaxProgress == 1

Workers == 1..MaxWorkers

NoWorker ==
    [state |-> "unborn", emitted |-> 0, completions |-> 0, cancelled |-> FALSE, delivered |-> FALSE,
     displayed |-> FALSE]

Running == {w \in Workers : workers[w].state = "running"}

\* The dialog before it is first opened.
UiInit ==
    /\ dialog = "closed"
    /\ progress = [shown |-> FALSE, canceled |-> TRUE]
    /\ results = "hidden"
    /\ scan_thread = 0
    /\ workers = [w \in Workers |-> NoWorker]
    /\ queue = <<>>
    /\ completed = 0
    /\ ui_delete = [made |-> FALSE, inflight |-> 0, ready |-> FALSE]

\* The dialog at rest, for the behaviours of the other parts.
UiIdle == UiInit

\* QThread.terminate() on a worker: a running worker stops and its finished
\* signal is queued.
Terminated(ws, w) ==
    IF w # 0 /\ ws[w].state = "running" THEN [ws EXCEPT ![w].state = "terminated"] ELSE ws

FinishedOf(ws, w) ==
    IF w # 0 /\ ws[w].state = "running" THEN <<[kind |-> "finished", from |-> w, dup |-> FALSE]>> ELSE <<>>

\* show_duplicate_finder: the thread self.scan_thread refers to is terminated
\* and waited for, the reference is dropped, and a new dialog is built with
\* its progress dialog hidden and cancelled and its results area hidden.
ShowDuplicateFinder ==
    /\ dialog = "closed"
    /\ workers' = Terminated(workers, scan_thread)
    /\ queue' = queue \o FinishedOf(workers, scan_thread)
    /\ scan_thread' = 0
    /\ progress' = [shown |-> FALSE, canceled |-> TRUE]
    /\ results' = "hidden"
    /\ dialog' = "open"
    /\ UNCHANGED <<completed, ui_delete>>
    /\ UNCHANGED <<storeVars, scanVars, tempVars, browserVars, walkVars, progVars, treeVars>>

\* The Close button of the dialog.
CloseDialog ==
    /\ dialog = "open"
    /\ ~progress.shown
    /\ dialog' = "closed"
    /\ UNCHANGED <<progress, results, scan_thread, workers, queue, completed, ui_delete>>
    /\ UNCHANGED <<storeVars, scanVars, tempVars, browserVars, walkVars, progVars, treeVars>>

\* _start_duplicate_scan with a valid path: the progress dialog is reset and
\* shown, a new DuplicateScanThread on self.duplicate_finder is started and
\* self.scan_thread refers to it.  The handler looks at the path only, not
\* at the threads that run.
StartDuplicateScan ==
    /\ dialog = "open"
    /\ ~progress.shown
    /\ \E w \in Workers :
        /\ workers[w].state = "unborn"
        /\ \A v \in Workers : v < w => workers[v].state # "unborn"
        /\ workers' = [workers EXCEPT ![w].state = "running"]
        /\ scan_thread' = w
    /\ progress' = [shown |-> TRUE, canceled |-> FALSE]
    /\ UNCHANGED <<dialog, results, queue, completed, ui_delete>>
    /\ UNCHANGED <<storeVars, scanVars, tempVars, browserVars, walkVars, progVars, treeVars>>

\* The Cancel button of the progress dialog: QProgressDialog.cancel() hides
\* the dialog and sets wasCanceled(); no handler of the window runs.
CancelProgress ==
    /\ progress.shown
    /\ progress' = [shown |-> FALSE, canceled |-> TRUE]
    /\ workers' = [w \in Workers |->
                    IF workers[w].state = "running" THEN [workers[w] EXCEPT !.cancelled = TRUE] ELSE workers[w]]
    /\ UNCHANGED <<dialog, results, scan_thread, queue, completed, ui_delete>>
    /\ UNCHANGED <<storeVars, scanVars, tempVars, browserVars, walkVars, progVars, treeVars>>

\* DuplicateScanThread.run: the progress callback emits progress_updated.
WorkerProgress ==
    \E w \in Running :
        /\ workers[w].emitted < MaxProgress
        /\ workers' = [workers EXCEPT ![w].emitted = @ + 1]
        /\ queue' = Append(queue, [kind |-> "progress", from |-> w, dup |-> FALSE])
        /\ UNCHANGED <<dialog, progress, results, scan_thread, completed, ui_delete>>
        /\ UNCHANGED <<storeVars, scanVars, tempVars, browserVars, walkVars, progVars, treeVars>>

\* DuplicateScanThread.run: scan_directory returns, scan_completed is
\* emitted with the mapping (dup: it has groups), run returns and the thread
\* emits finished.
WorkerComplete ==
    \E w \in Running, dup \in BOOLEAN :
        /\ workers' = [workers EXCEPT ![w].state = "finished", ![w].completions = @ + 1]
        /\ queue' = queue \o <<[kind |-> "completed", from |-> w, dup |-> dup],
                               [kind |-> "finished", from |-> w, dup |-> FALSE]>>
        /\ completed' = completed + 1
        /\ UNCHANGED <<dialog, progress, results, scan_thread, ui_delete>>
        /\ UNCHANGED <<storeVars, scanVars, tempVars, browserVars, walkVars, progVars, treeVars>>

\* DuplicateScanThread.run: scan_directory raises (os.path.getmtime of the
\* sort meets a member that is gone); run has no handler, so the thread ends
\* without scan_completed.  Whether finished still follows depends on what
\* the binding does with the exception.
WorkerRaise ==
    \E w \in Running, fin \in BOOLEAN :
        /\ workers' = [workers EXCEPT ![w].state = "failed"]
        /\ queue' = IF fin THEN Append(queue, [kind |-> "finished", from |-> w, dup |-> FALSE]) ELSE queue
        /\ UNCHANGED <<dialog, progress, results, scan_thread, completed, ui_delete>>
        /\ UNCHANGED <<storeVars, scanVars, tempVars, browserVars, walkVars, progVars, treeVars>>

\* update_scan_progress: after a cancel the thread self.scan_thread refers to
\* is terminated; otherwise the bar is updated.
UpdateScanProgress ==
    /\ queue # <<>>
    /\ Head(queue).kind = "progress"
    /\ IF progress.canceled
       THEN /\ workers' = Terminated(workers, scan_thread)
            /\ queue' = Tail(queue) \o FinishedOf(workers, scan_thread)
       ELSE /\ workers' = workers
            /\ queue' = Tail(queue)
    /\ UNCHANGED <<dialog, progress, results, scan_thread, completed, ui_delete>>
    /\ UNCHANGED <<storeVars, scanVars, tempVars, browserVars, walkVars, progVars, treeVars>>

\* _on_scan_completed: the progress dialog is hidden; a mapping with groups
\* is shown in the results area with the Delete Selected button.
OnScanCompleted ==
    /\ queue # <<>>
    /\ Head(queue).kind = "completed"
    /\ queue' = Tail(queue)
    /\ progress' = [progress EXCEPT !.shown = FALSE]
    /\ results' = IF Head(queue).dup /\ dialog = "open" THEN "shown" ELSE results
    /\ workers' = [workers EXCEPT ![Head(queue).from].delivered = TRUE,
                                  ![Head(queue).from].displayed = Head(queue).dup]
    /\ UNCHANGED <<dialog, scan_thread, completed, ui_delete>>
    /\ UNCHANGED <<storeVars, scanVars, tempVars, browserVars, walkVars, progVars, treeVars>>

\* finished.connect(lambda: setattr(self, 'scan_thread', None))
OnThreadFinished ==
    /\ queue # <<>>
    /\ Head(queue).kind = "finished"
    /\ queue' = Tail(queue)
    /\ scan_thread' = 0
    /\ UNCHANGED <<dialog, progress, results, workers, completed, ui_delete>>
    /\ UNCHANGED <<storeVars, scanVars, tempVars, browserVars, walkVars, progVars, treeVars>>

\* _delete_selected_duplicates with checked items, confirmed: the window
\* calls self.duplicate_finder.delete_selected_duplicates.
UiDeleteSelected ==
    /\ dialog = "open"
    /\ results = "shown"
    /\ ~progress.shown
    /\ ui_delete' = [made |-> TRUE, inflight |-> Cardinality(Running),
                     ready |-> completed > 0 /\ Running = {}]
    /\ UNCHANGED <<dialog, progress, results, scan_thread, workers, queue, completed>>
    /\ UNCHANGED <<storeVars, scanVars, tempVars, browserVars, walkVars, progVars, treeVars>>

NextUi ==
    \/ ShowDuplicateFinder
    \/ CloseDialog
    \/ StartDuplicateScan
    \/ CancelProgress
    \/ WorkerProgress
    \/ WorkerComplete
    \/ WorkerRaise
    \/ UpdateScanProgress
    \/ OnScanCompleted
    \/ OnThreadFinished
    \/ UiDeleteSelected

(***************************************************************************)
(* Part 4. FileCleanup.clean_temp_files                                    *)
(*                                                                         *)
(* The temp roots hold the files of TempNames.  A file is a record         *)
(* [exists, root, readable, age, critical, fate]: age is its modification  *)
(* age in hours when os.stat can read it (readable), critical says that    *)
(* its name or path matches the denylist of _is_system_critical_file, and  *)
(* fate = [locks, then] says what os.remove meets: the first `locks`       *)
(* attempts find the file in use, and the attempt after them removes it    *)
(* ("free"), is denied for another reason ("denied") or finds that another *)
(* process removed it ("gone").                                            *)
(***************************************************************************)

\* max_retries of _delete_file_with_retry.
MaxRetries == 3

\* The default of min_file_age_hours.
DefaultMinAgeHours == 1

\* Permission errors are logged while the errors list is shorter than this.
PermissionLogCap == 5

TempNames == {"t1", "t2"}

\* The order in which os.walk lists the files of a root.
TempOrder == <<"t1", "t2">>

Roots == {"tmp", "cache"}

\* _get_temp_directories: tempfile.gettempdir() comes first and the roots of
\* the platform follow; where gettempdir() is one of them ("/tmp" on Linux),
\* the list names that root twice.
TempDirLists == {<<"tmp", "cache">>, <<"tmp", "cache", "tmp">>}

Ages == 0..(DefaultMinAgeHours + 1)

Fates ==
    {[locks |-> 0, then |-> t] : t \in {"free", "denied", "gone"}}
        \cup {[locks |-> k, then |-> "free"] : k \in 1..MaxRetries}
        \cup {[locks |-> 1, then |-> "denied"]}

NoTemp == [exists |-> FALSE, root |-> "tmp", readable |-> TRUE, age |-> 0, critical |-> FALSE,
           fate |-> [locks |-> 0, then |-> "free"]]

\* The root that holds a file.
RootOf(name) == IF name = "t1" THEN "tmp" ELSE "cache"

\* The files a root can hold; a file whose age cannot be read has age 0 here.
TempFiles(root) ==
    {[exists |-> TRUE, root |-> root, readable |-> rd, age |-> a, critical |-> c, fate |-> ft] :
        rd \in BOOLEAN, a \in Ages, c \in BOOLEAN, ft \in Fates}
    \ {f \in [exists : {TRUE}, root : {root}, readable : {FALSE}, age : Ages \ {0},
              critical : BOOLEAN, fate : Fates] : TRUE}

\* os.path.getsize of a file.
TempSize(name) == IF name = "t1" THEN 1 ELSE 2

NoTurn ==
    [name |-> "none", file |-> NoTemp, attempts |-> 0, result |-> "none",
     before |-> [files_deleted |-> 0, size_freed |-> 0, skipped_files |-> 0,
                 permission_errors |-> 0, in_use_errors |-> 0, errors |-> <<>>]]

\* Faulty variant: a file exactly as old as the minimum counts as old enough.
is_file_old_enough_AtLeast(f, min_age) ==
    IF ~f.readable THEN FALSE ELSE f.age >= min_age

\* _is_file_old_enough: os.stat raising OSError or ValueError gives False.
is_file_old_enough(f, min_age) ==
    IF ~f.readable THEN FALSE ELSE f.age > min_age

\* _is_system_critical_file.
is_system_critical_file(f) == f.critical

\* Faulty variant: the first in-use error ends the attempts.
MayRetry_Never(attempt) == FALSE

\* The in-use branch of _delete_file_with_retry: another attempt follows.
MayRetry(attempt) == attempt < MaxRetries - 1

\* _delete_file_with_retry from attempt `attempt` (0-based) on: the value it
\* returns or the PermissionError it raises, and the os.remove calls made.
RECURSIVE delete_file_with_retry(_, _)
delete_file_with_retry(f, attempt) ==
    IF attempt >= MaxRetries
    THEN [result |-> "False", in_use |-> FALSE, attempts |-> attempt]
    ELSE IF f.fate.locks > attempt
         THEN IF MayRetry(attempt)
              THEN delete_file_with_retry(f, attempt + 1)
              ELSE [result |-> "PermissionError", in_use |-> TRUE, attempts |-> attempt + 1]
         ELSE CASE f.fate.then = "free" ->
                       [result |-> "True", in_use |-> FALSE, attempts |-> attempt + 1]
                [] f.fate.then = "denied" ->
                       [result |-> "PermissionError", in_use |-> FALSE, attempts |-> attempt + 1]
                [] f.fate.then = "gone" ->
                       [result |-> "False", in_use |-> FALSE, attempts |-> attempt + 1]

\* The files os.walk lists in a root.
Listing(files, root) ==
    SelectSeq(TempOrder, LAMBDA n : files[n].exists /\ files[n].root = root)

\* The dictionary clean_temp_files returns.
CleanResult ==
    [files_deleted |-> cleaned_files, size_freed |-> cleaned_size,
     skipped_files |-> skipped_files, permission_errors |-> permission_errors,
     in_use_errors |-> in_use_errors, errors |-> errors]

\* FileCleanup.__init__ on some temp roots.
TempInit ==
    /\ tfs \in [TempNames -> TempFiles("tmp") \cup TempFiles("cache") \cup {NoTemp}]
    /\ \A n \in TempNames : tfs[n].exists => tfs[n].root = RootOf(n)
    /\ temp_dirs \in TempDirLists
    /\ min_file_age_hours \in 0..DefaultMinAgeHours
    /\ tpc = "idle"
    /\ tdir = 0
    /\ tqueue = <<>>
    /\ cleaned_size = 0
    /\ cleaned_files = 0
    /\ skipped_files = 0
    /\ permission_errors = 0
    /\ in_use_errors = 0
    /\ errors = <<>>
    /\ tbefore = tfs
    /\ tlast = NoTurn

\* The cleaner at rest, for the behaviours of the other parts.
TempIdle ==
    /\ tfs = [n \in TempNames |-> NoTemp]
    /\ temp_dirs = <<"tmp", "cache">>
    /\ min_file_age_hours = DefaultMinAgeHours
    /\ tpc = "idle"
    /\ tdir = 0
    /\ tqueue = <<>>
    /\ cleaned_size = 0
    /\ cleaned_files = 0
    /\ skipped_files = 0
    /\ permission_errors = 0
    /\ in_use_errors = 0
    /\ errors = <<>>
    /\ tbefore = tfs
    /\ tlast = NoTurn

\* clean_temp_files is called: the counters are reset and the first root is
\* walked.
CleanTempFiles ==
    /\ tpc \in {"idle", "returned"}
    /\ tpc' = "cleaning"
    /\ cleaned_size' = 0
    /\ cleaned_files' = 0
    /\ skipped_files' = 0
    /\ permission_errors' = 0
    /\ in_use_errors' = 0
    /\ errors' = <<>>
    /\ tdir' = 1
    /\ tqueue' = Listing(tfs, temp_dirs[1])
    /\ tbefore' = tfs
    /\ tlast' = NoTurn
    /\ UNCHANGED <<tfs, temp_dirs, min_file_age_hours>>
    /\ UNCHANGED <<storeVars, scanVars, uiVars, browserVars, walkVars, progVars, treeVars>>

\* One turn of the loop of _clean_directory_smart; tlast keeps the file, the
\* os.remove calls made for it and the statistics before the turn.
CleanFile ==
    /\ tpc = "cleaning"
    /\ tqueue # <<>>
    /\ LET n == Head(tqueue)
           f == tfs[n]
           r == delete_file_with_retry(f, 0)
       IN  /\ tqueue' = Tail(tqueue)
           /\ IF ~f.exists
              THEN /\ tlast' = [name |-> n, file |-> f, attempts |-> 0, result |-> "missing",
                                before |-> CleanResult]
                   /\ UNCHANGED <<tfs, cleaned_size, cleaned_files, skipped_files,
                                  permission_errors, in_use_errors, errors>>
              ELSE IF ~is_file_old_enough(f, min_file_age_hours)
              THEN /\ skipped_files' = skipped_files + 1
                   /\ tlast' = [name |-> n, file |-> f, attempts |-> 0, result |-> "young",
                                before |-> CleanResult]
                   /\ UNCHANGED <<tfs, cleaned_size, cleaned_files,
                                  permission_errors, in_use_errors, errors>>
              ELSE IF is_system_critical_file(f)
              THEN /\ skipped_files' = skipped_files + 1
                   /\ tlast' = [name |-> n, file |-> f, attempts |-> 0, result |-> "critical",
                                before |-> CleanResult]
                   /\ UNCHANGED <<tfs, cleaned_size, cleaned_files,
                                  permission_errors, in_use_errors, errors>>
              ELSE /\ tlast' = [name |-> n, file |-> f, attempts |-> r.attempts,
                                result |-> r.result, before |-> CleanResult]
                   /\ CASE r.result = "True" ->
                               /\ tfs' = [tfs EXCEPT ![n].exists = FALSE]
                               /\ cleaned_size' = cleaned_size + TempSize(n)
                               /\ cleaned_files' = cleaned_files + 1
                               /\ UNCHANGED <<skipped_files, permission_errors,
                                              in_use_errors, errors>>
                        [] r.result = "False" ->
                               /\ tfs' = [tfs EXCEPT ![n].exists =
                                             IF f.fate.then = "gone" THEN FALSE ELSE @]
                               /\ skipped_files' = skipped_files + 1
                               /\ UNCHANGED <<cleaned_size, cleaned_files, permission_errors,
                                              in_use_errors, errors>>
                        [] r.result = "PermissionError" ->
                               /\ permission_errors' = permission_errors + 1
                               /\ in_use_errors' = in_use_errors + (IF r.in_use THEN 1 ELSE 0)
                               /\ errors' = IF Len(errors) < PermissionLogCap
                                            THEN Append(errors, n) ELSE errors
                               /\ UNCHANGED <<tfs, cleaned_size, cleaned_files, skipped_files>>
    /\ UNCHANGED <<temp_dirs, min_file_age_hours, tpc, tdir, tbefore>>
    /\ UNCHANGED <<storeVars, scanVars, uiVars, browserVars, walkVars, progVars, treeVars>>

\* _clean_directory_smart returns and the loop of clean_temp_files walks the
\* next root.
CleanNextDir ==
    /\ tpc = "cleaning"
    /\ tqueue = <<>>
    /\ tdir < Len(temp_dirs)
    /\ tdir' = tdir + 1
    /\ tqueue' = Listing(tfs, temp_dirs[tdir + 1])
    /\ UNCHANGED <<tfs, temp_dirs, min_file_age_hours, tpc, cleaned_size, cleaned_files,
                   skipped_files, permission_errors, in_use_errors, errors, tbefore, tlast>>
    /\ UNCHANGED <<storeVars, scanVars, uiVars, browserVars, walkVars, progVars, treeVars>>

\* clean_temp_files returns its statistics.
CleanReturn ==
    /\ tpc = "cleaning"
    /\ tqueue = <<>>
    /\ tdir = Len(temp_dirs)
    /\ tpc' = "returned"
    /\ UNCHANGED <<tfs, temp_dirs, min_file_age_hours, tdir, tqueue, cleaned_size, cleaned_files,
                   skipped_files, permission_errors, in_use_errors, errors, tbefore, tlast>>
    /\ UNCHANGED <<storeVars, scanVars, uiVars, browserVars, walkVars, progVars, treeVars>>

\* Time passes between two calls: a file grows an hour older.
TempAge ==
    /\ tpc = "returned"
    /\ \E n \in TempNames :
        /\ tfs[n].exists
        /\ tfs[n].age < DefaultMinAgeHours + 1
        /\ tfs' = [tfs EXCEPT ![n].age = @ + 1]
    /\ UNCHANGED <<temp_dirs, min_file_age_hours, tpc, tdir, tqueue, cleaned_size, cleaned_files,
                   skipped_files, permission_errors, in_use_errors, errors, tbefore, tlast>>
    /\ UNCHANGED <<storeVars, scanVars, uiVars, browserVars, walkVars, progVars, treeVars>>

NextTemp ==
    \/ CleanTempFiles
    \/ CleanFile
    \/ CleanNextDir
    \/ CleanReturn
    \/ TempAge

(***************************************************************************)
(* Part 5. BrowserCleaner.clean_browser_data                               *)
(*                                                                         *)
(* A data path holds nothing ("absent"), a store file ("file", with the    *)
(* database of part 1 in it) or a directory ("dir") of `files` files of    *)
(* which `locked` cannot be removed.  The paths of the three browsers are  *)
(* disjoint and a call touches the paths of browser_name only, so one      *)
(* browser's paths are populated in a behaviour.  Every file has size 1.   *)
(***************************************************************************)

\* Longest data_types list of a modelled call.
MaxTypes == 2

\* Largest number of files in a modelled cache directory.
MaxCacheFiles == 1

Browsers == {"Chrome", "Firefox", "Edge"}

BrowserDataTypes == {"cache", "cookies", "history", "downloads", "temp"}

\* _detect_browsers: the path of a data type of a browser, below the user's
\* profile.  Chrome and Edge keep history and downloads in one file.
PathOf(browser, data_type) ==
    CASE browser = "Firefox" ->
             (CASE data_type = "cache" -> "Firefox/cache2"
                [] data_type = "cookies" -> "Firefox/cookies.sqlite"
                [] data_type = "history" -> "Firefox/places.sqlite"
                [] data_type = "downloads" -> "Firefox/downloads.sqlite"
                [] data_type = "temp" -> "Firefox/storage")
      [] browser = "Chrome" ->
             (CASE data_type = "cache" -> "Chrome/Cache"
                [] data_type = "cookies" -> "Chrome/Cookies"
                [] data_type = "history" -> "Chrome/History"
                [] data_type = "downloads" -> "Chrome/History"
                [] data_type = "temp" -> "Chrome/Local Storage")
      [] browser = "Edge" ->
             (CASE data_type = "cache" -> "Edge/Cache"
                [] data_type = "cookies" -> "Edge/Cookies"
                [] data_type = "history" -> "Edge/History"
                [] data_type = "downloads" -> "Edge/History"
                [] data_type = "temp" -> "Edge/Local Storage")

BrowserPaths == {PathOf(b, t) : b \in Browsers, t \in BrowserDataTypes}

\* path.endswith('.sqlite')
EndsWithSqlite(path) ==
    path \in {"Firefox/cookies.sqlite", "Firefox/places.sqlite", "Firefox/downloads.sqlite"}

\* The tables of the store a browser keeps at a path.
SchemaAt(path) ==
    CASE path \in {"Chrome/Cookies", "Edge/Cookies", "Firefox/cookies.sqlite"} -> {"cookies"}
      [] path \in {"Chrome/History", "Edge/History"} -> {"urls", "visits", "downloads"}
      [] path = "Firefox/places.sqlite" -> {"urls", "visits"}
      [] path = "Firefox/downloads.sqlite" -> {"downloads"}
      [] OTHER -> {}

NoPath == [kind |-> "absent", store |-> Absent, files |-> 0, locked |-> 0]

StoreFile(database) == [kind |-> "file", store |-> database, files |-> 0, locked |-> 0]

Directory(k, j) == [kind |-> "dir", store |-> Absent, files |-> k, locked |-> j]

\* What a data path of a browser can hold.
Holds(path) ==
    IF SchemaAt(path) # {}
    THEN {NoPath, StoreFile(Database(SchemaAt(path), 1))}
    ELSE {NoPath} \cup {Directory(k, j) : k \in 0..MaxCacheFiles, j \in 0..MaxCacheFiles}

\* The paths of a browser that hold something in a behaviour: the temp
\* directory is cleaned by the branch that cleans the cache directory and is
\* absent here.
OwnPaths(browser) == {PathOf(browser, t) : t \in BrowserDataTypes \ {"temp"}}

\* The ways a turn of the loop can fail from outside: the store is locked by
\* the running browser (sqlite3 raises at the first DELETE) or the file
\* cannot be removed.
TurnFaults == {"none", "locked"}

\* _clear_sqlite_database raises: a statement fails on a locked store or on a
\* table the store does not have.
ClearRaises(file, data_type, fault) ==
    \/ fault = "locked"
    \/ \E i \in 1..Len(Statements(data_type)) : file.rows[Statements(data_type)[i]] = -1

\* The store after _clear_sqlite_database, called with no stale backup: the
\* committed deletes, or the backup of the call moved back.
ClearedStore(file, data_type, fault) ==
    IF ClearRaises(file, data_type, fault)
    THEN RestoredStore(file, file)
    ELSE Committed(file, data_type)

NoCategory ==
    [data_type |-> "none", path |-> "none", pre |-> NoPath, fault |-> "none", branch |-> "none",
     size |-> 0, files |-> 0, errors |-> <<>>, types |-> <<>>]

\* The selection the loop of the call begins with.
BrowserReset ==
    /\ bcleaned_size = 0
    /\ bcleaned_files = 0
    /\ berrors = <<>>
    /\ cleaned_types = <<>>
    /\ bleft = 0
    /\ browser_name = "none"
    /\ bresult = [success |-> FALSE, returned |-> FALSE, cleaned_types |-> <<>>,
                  size_freed |-> 0, files_deleted |-> 0, errors |-> <<>>]
    /\ blast = NoCategory

\* BrowserCleaner.__init__: _detect_browsers on the profile of one browser.
\* Chrome and Edge are detected when one of their paths exists, Firefox when
\* its profile directory exists, with or without the files in it.
BrowserInit ==
    /\ \E b \in Browsers :
        /\ \E own \in [OwnPaths(b) -> UNION {Holds(p) : p \in OwnPaths(b)}] :
            /\ \A p \in OwnPaths(b) :
                /\ own[p] \in Holds(p)
                /\ own[p].kind = "dir" => own[p].locked <= own[p].files
            /\ bdisk = [p \in BrowserPaths |-> IF p \in OwnPaths(b) THEN own[p] ELSE NoPath]
        /\ browsers \in SUBSET Browsers
        /\ \A c \in {"Chrome", "Edge"} :
            c \in browsers <=> \E t \in BrowserDataTypes : bdisk[PathOf(c, t)].kind # "absent"
        /\ "Firefox" \in browsers => b = "Firefox"
        /\ (\E t \in BrowserDataTypes \ {"cache"} : bdisk[PathOf("Firefox", t)].kind # "absent")
               => "Firefox" \in browsers
    /\ bpc = "idle"
    /\ BrowserReset
    /\ bpre = bdisk

\* The browser cleaner at rest, for the behaviours of the other parts.
BrowserIdle ==
    /\ bdisk = [p \in BrowserPaths |-> NoPath]
    /\ browsers = {}
    /\ bpc = "idle"
    /\ BrowserReset
    /\ bpre = bdisk

\* clean_browser_data(browser_name, data_types) is called; a browser that is
\* not among the detected ones is reported at once.
CleanBrowserData ==
    /\ bpc \in {"idle", "returned"}
    /\ \E name \in Browsers \cup {"Opera"}, n \in 0..MaxTypes :
        /\ browser_name' = name
        /\ IF name \notin browsers
           THEN /\ bpc' = "returned"
                /\ bleft' = 0
                /\ bresult' = [success |-> FALSE, returned |-> TRUE, cleaned_types |-> <<>>,
                               size_freed |-> 0, files_deleted |-> 0, errors |-> <<>>]
                /\ UNCHANGED <<bcleaned_size, bcleaned_files, berrors, cleaned_types>>
           ELSE /\ bpc' = "cleaning"
                /\ bleft' = n
                /\ bcleaned_size' = 0
                /\ bcleaned_files' = 0
                /\ berrors' = <<>>
                /\ cleaned_types' = <<>>
                /\ bresult' = [bresult EXCEPT !.returned = FALSE]
    /\ bpre' = bdisk
    /\ blast' = NoCategory
    /\ UNCHANGED <<bdisk, browsers>>
    /\ UNCHANGED <<storeVars, scanVars, uiVars, tempVars, walkVars, progVars, treeVars>>

\* One turn of the loop over data_types: the entry is a data type of the
\* browser or a name that browser_paths does not have.
CleanCategory ==
    /\ bpc = "cleaning"
    /\ bleft > 0
    /\ bleft' = bleft - 1
    /\ \E data_type \in BrowserDataTypes \cup {"passwords"}, fault \in TurnFaults :
        IF data_type \notin BrowserDataTypes
        THEN /\ blast' = [NoCategory EXCEPT !.data_type = data_type, !.branch = "unknown",
                              !.size = bcleaned_size, !.files = bcleaned_files,
                              !.errors = berrors, !.types = cleaned_types]
             /\ UNCHANGED <<bdisk, bcleaned_size, bcleaned_files, berrors, cleaned_types>>
        ELSE LET path == PathOf(browser_name, data_type)
                 f == bdisk[path]
                 branch == IF data_type \in {"cookies", "history", "downloads"}
                              /\ EndsWithSqlite(path)
                           THEN IF f.kind = "absent" THEN "no store" ELSE "mutator"
                           ELSE IF f.kind = "absent" THEN "no path"
                                ELSE IF f.kind = "dir" THEN "directory" ELSE "remove"
             IN  /\ blast' = [data_type |-> data_type, path |-> path, pre |-> f, fault |-> fault,
                              branch |-> branch, size |-> bcleaned_size, files |-> bcleaned_files,
                              errors |-> berrors, types |-> cleaned_types]
                 /\ CASE branch \in {"no store", "no path"} ->
                            UNCHANGED <<bdisk, bcleaned_size, bcleaned_files, berrors,
                                        cleaned_types>>
                      [] branch = "mutator" ->
                            /\ bdisk' = [bdisk EXCEPT ![path].store =
                                             ClearedStore(f.store, data_type, fault)]
                            /\ IF ClearRaises(f.store, data_type, fault)
                               THEN /\ berrors' = Append(berrors, data_type)
                                    /\ UNCHANGED <<bcleaned_size, bcleaned_files, cleaned_types>>
                               ELSE /\ bcleaned_size' = bcleaned_size + 1
                                    /\ bcleaned_files' = bcleaned_files + 1
                                    /\ cleaned_types' = Append(cleaned_types, data_type)
                                    /\ UNCHANGED berrors
                      [] branch = "directory" ->
                            /\ bdisk' = [bdisk EXCEPT ![path].files = f.locked]
                            /\ bcleaned_size' = bcleaned_size + (f.files - f.locked)
                            /\ bcleaned_files' = bcleaned_files + (f.files - f.locked)
                            /\ berrors' = berrors \o [i \in 1..f.locked |-> "file"]
                            /\ cleaned_types' = Append(cleaned_types, data_type)
                      [] branch = "remove" ->
                            IF fault = "locked"
                            THEN /\ berrors' = Append(berrors, data_type)
                                 /\ UNCHANGED <<bdisk, bcleaned_size, bcleaned_files,
                                                cleaned_types>>
                            ELSE /\ bdisk' = [bdisk EXCEPT ![path] = NoPath]
                                 /\ bcleaned_size' = bcleaned_size + 1
                                 /\ bcleaned_files' = bcleaned_files + 1
                                 /\ cleaned_types' = Append(cleaned_types, data_type)
                                 /\ UNCHANGED berrors
    /\ UNCHANGED <<browsers, bpc, browser_name, bresult, bpre>>
    /\ UNCHANGED <<storeVars, scanVars, uiVars, tempVars, walkVars, progVars, treeVars>>

\* The loop is over: clean_browser_data returns its dictionary.
CleanBrowserReturn ==
    /\ bpc = "cleaning"
    /\ bleft = 0
    /\ bpc' = "returned"
    /\ bresult' = [success |-> TRUE, returned |-> TRUE, cleaned_types |-> cleaned_types,
                   size_freed |-> bcleaned_size, files_deleted |-> bcleaned_files,
                   errors |-> berrors]
    /\ UNCHANGED <<bdisk, browsers, browser_name, bleft, bcleaned_size, bcleaned_files, berrors,
                   cleaned_types, bpre, blast>>
    /\ UNCHANGED <<storeVars, scanVars, uiVars, tempVars, walkVars, progVars, treeVars>>

NextBrowser ==
    \/ CleanBrowserData
    \/ CleanCategory
    \/ CleanBrowserReturn

(***************************************************************************)
(* Part 6. The filters of the walk of scan_directory                       *)
(*                                                                         *)
(* A file is a record [exists, dirs, name, size]: dirs are the names of    *)
(* the directories between the scanned root and the file, outermost first. *)
(* All files hold the same bytes up to their size, so two hashed files are *)
(* in one group iff they have the same size.                               *)
(***************************************************************************)

\* The names of the directories the walk excludes, as the code lists them.
Denylist ==
    {"system volume information", "$recycle.bin", "windows", "program files",
     "program files (x86)", "appdata\\local\\temp", "temp"}

WalkSlots == {"f1", "f2"}

DirNames == {"docs", "Temp", "WINDOWS", ".git"}

RootNames == {"photos", "Temp"}

FileNames == {"a.txt", "b.TXT", ".c.txt", "d.jpg"}

\* The places of a file below the root: in the root, in a directory of the
\* root, or one level deeper, below or above a directory called docs.
DirPaths ==
    {<<>>} \cup {<<d>> : d \in DirNames} \cup {<<d, "docs">> : d \in DirNames}
           \cup {<<"docs", d>> : d \in DirNames}

\* str.lower() on the names of the model.
Lower(s) ==
    CASE s = "Temp" -> "temp"
      [] s = "WINDOWS" -> "windows"
      [] s = "b.TXT" -> "b.txt"
      [] s = ".TXT" -> ".txt"
      [] OTHER -> s

\* str.startswith('.') on the names of the model.
StartsWithDot(s) == s \in {".git", ".c.txt"}

\* Path(file_path).suffix on the names of the model.
Suffix(name) ==
    CASE name = "a.txt" -> ".txt"
      [] name = "b.TXT" -> ".TXT"
      [] name = ".c.txt" -> ".txt"
      [] name = "d.jpg" -> ".jpg"

\* The extension sets of the calls: None, a set, and the empty set.
ExtensionArgs ==
    {[given |-> FALSE, extensions |-> {}], [given |-> TRUE, extensions |-> {".txt"}],
     [given |-> TRUE, extensions |-> {}]}

NoWalkFile == [exists |-> FALSE, dirs |-> <<>>, name |-> "a.txt", size |-> 0]

WalkFiles ==
    {[exists |-> TRUE, dirs |-> d, name |-> n, size |-> z] :
        d \in DirPaths, n \in FileNames, z \in {DefaultMinSize - 1, DefaultMinSize}}

\* dirs[:] = [d for d in dirs if ...]: the walk does not enter directory d.
Pruned(d) == StartsWithDot(d) \/ Lower(d) \in Denylist

\* os.walk with the pruning above lists the files of a directory below the
\* root iff it entered every directory on the way to it.
Reached(dirs) == \A i \in 1..Len(dirs) : ~Pruned(dirs[i])

\* if extensions: ... file_ext not in extensions
ExtensionMatches(name, extensions) ==
    extensions # {} => Lower(Suffix(name)) \in extensions

\* The file passes the filters of the loop and is hashed.
Hashed(f, call) ==
    /\ f.exists
    /\ Reached(f.dirs)
    /\ ~StartsWithDot(f.name)
    /\ f.size >= call.min_size
    /\ ExtensionMatches(f.name, call.extensions)

\* The files of the buckets with more than one file.
Grouped(tree, call) ==
    {n \in WalkSlots : /\ Hashed(tree[n], call)
                       /\ \E m \in WalkSlots \ {n} : /\ Hashed(tree[m], call)
                                                     /\ tree[m].size = tree[n].size}

\* Some root with two different files below it, and the arguments of a call.
WalkInit ==
    /\ wtree \in [WalkSlots -> WalkFiles]
    /\ \A n, m \in WalkSlots :
        n # m => <<wtree[n].dirs, wtree[n].name>> # <<wtree[m].dirs, wtree[m].name>>
    /\ wroot \in RootNames
    /\ \E e \in ExtensionArgs :
        wargs = [given |-> e.given, extensions |-> e.extensions, min_size |-> DefaultMinSize]
    /\ wpc = "idle"
    /\ wmembers = {}

\* The walk at rest, for the behaviours of the other parts.
WalkIdle ==
    /\ wtree = [n \in WalkSlots |-> NoWalkFile]
    /\ wroot = "photos"
    /\ wargs = [given |-> FALSE, extensions |-> {}, min_size |-> DefaultMinSize]
    /\ wpc = "idle"
    /\ wmembers = {}

\* scan_directory(root, extensions, min_size) on the tree.
WalkScan ==
    /\ wpc = "idle"
    /\ wpc' = "done"
    /\ wmembers' = Grouped(wtree, wargs)
    /\ UNCHANGED <<wtree, wroot, wargs>>
    /\ UNCHANGED <<storeVars, scanVars, uiVars, tempVars, browserVars, progVars, treeVars>>

NextWalk == WalkScan

(***************************************************************************)
(* Part 7. The progress reports of scan_directory                          *)
(*                                                                         *)
(* The loop of the scan, reduced to its counters: the counting pass        *)
(* returned ptotal, the loop meets pfiles candidate files (more than       *)
(* ptotal when files appeared after the count) and calls progress_callback *)
(* as the code does.                                                       *)
(***************************************************************************)

\* scanned_files % 5 == 0
ProgressEvery == 5

\* The totals of the modelled scans.
ProgressTotals == {0, 1, 4, 5, 12, 250, MaxFiles}

\* The pairs <<scanned, divisor>> of the modelled scans for which the double
\* (scanned / divisor) * 100 is below the integer 100 * scanned / divisor:
\* the quotient is rounded to a double before it is multiplied, e.g.
\* 145 / 250 * 100 = 57.99999999999999.
ProductBelow == {<<145, 250>>, <<2900, 10000>>, <<5700, 10000>>, <<5800, 10000>>}

\* int((scanned / divisor) * 100) in double arithmetic.
IntOfProduct(scanned, divisor) ==
    IF <<scanned, divisor>> \in ProductBelow
    THEN (100 * scanned) \div divisor - 1
    ELSE (100 * scanned) \div divisor

\* progress = min(int((scanned_files / min(total_files, max_scan_files)) * 100), 100)
ProgressOf(scanned, total) == Min(IntOfProduct(scanned, Min(total, MaxScanFiles)), 100)

NoEmit == [count |-> 0, scanned |-> 0, percent |-> 0, prev |-> 0]

\* A DuplicateFinder before a scan with a progress callback.
ProgressInit ==
    /\ ptotal \in ProgressTotals
    /\ pfiles \in {ptotal, ptotal + ProgressEvery}
    /\ pscanned = 0
    /\ ppc = "idle"
    /\ pemit = NoEmit

\* The progress part at rest, for the behaviours of the other parts.
ProgressIdle ==
    /\ ptotal = 0
    /\ pfiles = 0
    /\ pscanned = 0
    /\ ppc = "idle"
    /\ pemit = NoEmit

\* scan_directory is called: the session is reset and the files are counted;
\* with no file counted it returns at once.
ProgressStart ==
    /\ ppc = "idle"
    /\ pscanned' = 0
    /\ ppc' = IF ptotal = 0 THEN "done" ELSE "scanning"
    /\ UNCHANGED <<ptotal, pfiles, pemit>>
    /\ UNCHANGED <<storeVars, scanVars, uiVars, tempVars, browserVars, walkVars, treeVars>>

\* One candidate file of the loop: the counter grows and, at a multiple of
\* ProgressEvery, the callback is called.
ProgressFile ==
    /\ ppc = "scanning"
    /\ pscanned < Min(pfiles, MaxScanFiles)
    /\ pscanned' = pscanned + 1
    /\ pemit' = IF (pscanned + 1) % ProgressEvery = 0
                THEN [count |-> pemit.count + 1, scanned |-> pscanned + 1,
                      percent |-> ProgressOf(pscanned + 1, ptotal),
                      prev |-> pemit.percent]
                ELSE pemit
    /\ UNCHANGED <<ptotal, pfiles, ppc>>
    /\ UNCHANGED <<storeVars, scanVars, uiVars, tempVars, browserVars, walkVars, treeVars>>

\* The walk is over or the ceiling is reached.
ProgressFinish ==
    /\ ppc = "scanning"
    /\ pscanned >= Min(pfiles, MaxScanFiles)
    /\ ppc' = "done"
    /\ UNCHANGED <<ptotal, pfiles, pscanned, pemit>>
    /\ UNCHANGED <<storeVars, scanVars, uiVars, tempVars, browserVars, walkVars, treeVars>>

NextProgress ==
    \/ ProgressStart
    \/ ProgressFile
    \/ ProgressFinish

(***************************************************************************)
(* Part 8. The results tree of the duplicate-finder dialog                 *)
(*                                                                         *)
(* _show_duplicate_results builds one top-level item per group and one     *)
(* child per file; item <<g, i>> is the i-th file of group g, and          *)
(* <<g, 1>> is the file labelled (KEEP).  The Select All, Select None and  *)
(* Delete Selected buttons and the check boxes act on the children.        *)
(***************************************************************************)

\* The mappings put on display: one group of two files, and a group of two
\* with a group of three.
TreeShapes == {<<2>>, <<2, 3>>}

TreeItems == {<<1, 1>>, <<1, 2>>, <<2, 1>>, <<2, 2>>, <<2, 3>>}

ItemsOf(shape) == {it \in TreeItems : it[1] <= Len(shape) /\ it[2] <= shape[it[1]]}

\* QTreeWidgetItem(group_item): the flags of a new item.  Qt creates an item
\* enabled, selectable, drag-enabled and user-checkable; its check-state
\* data is unset, so no check box is drawn until setCheckState is called.
DefaultCheckable == TRUE

NoItem == [present |-> FALSE, checkable |-> FALSE, check |-> "unset"]

\* The child of file i of a group as the loop of _show_duplicate_results
\* leaves it: the files after the first get the flag and a checked box, the
\* first gets its label and colour only.
NewItem(i) ==
    IF i > 1
    THEN [present |-> TRUE, checkable |-> TRUE, check |-> "checked"]
    ELSE [present |-> TRUE, checkable |-> DefaultCheckable, check |-> "unset"]

\* child_item.flags() & Qt.ItemIsUserCheckable
Flagged(view, it) == view[it].present /\ view[it].checkable

\* The loop of _select_all_duplicates and _select_no_duplicates.
SetAll(view, state) ==
    [it \in TreeItems |-> IF Flagged(view, it) THEN [view[it] EXCEPT !.check = state] ELSE view[it]]

\* selected_files of _delete_selected_duplicates; checkState(0) of an item
\* without check-state data is Qt.Unchecked.
SelectedItems(view) == {it \in TreeItems : Flagged(view, it) /\ view[it].check = "checked"}

\* _refresh_duplicates_tree: the children named in the list are removed, and
\* a group left with at most one child is taken off the tree.
Refreshed(view, selected) ==
    LET kept == {it \in TreeItems : view[it].present /\ it \notin selected}
        large == {g \in 1..2 : Cardinality({it \in kept : it[1] = g}) > 1}
    IN [it \in TreeItems |-> IF it \in kept /\ it[1] \in large THEN view[it] ELSE NoItem]

\* A scan has returned a mapping that is not yet on display.
TreeInit ==
    /\ tshape \in TreeShapes
    /\ tview = [it \in TreeItems |-> NoItem]
    /\ tdisk = ItemsOf(tshape)
    /\ tpassed = {}

\* The tree part at rest, for the behaviours of the other parts.
TreeIdle ==
    /\ tshape = <<>>
    /\ tview = [it \in TreeItems |-> NoItem]
    /\ tdisk = {}
    /\ tpassed = {}

\* _show_duplicate_results(duplicates): the tree is built.
TreeShow ==
    /\ \A it \in TreeItems : ~tview[it].present
    /\ tpassed = {}
    /\ tview' = [it \in TreeItems |-> IF it \in ItemsOf(tshape) THEN NewItem(it[2]) ELSE NoItem]
    /\ UNCHANGED <<tshape, tdisk, tpassed>>
    /\ UNCHANGED <<storeVars, scanVars, uiVars, tempVars, browserVars, walkVars, progVars>>

\* _select_all_duplicates
TreeSelectAll ==
    /\ \E it \in TreeItems : tview[it].present
    /\ tview' = SetAll(tview, "checked")
    /\ UNCHANGED <<tshape, tdisk, tpassed>>
    /\ UNCHANGED <<storeVars, scanVars, uiVars, tempVars, browserVars, walkVars, progVars>>

\* _select_no_duplicates
TreeSelectNone ==
    /\ \E it \in TreeItems : tview[it].present
    /\ tview' = SetAll(tview, "unchecked")
    /\ UNCHANGED <<tshape, tdisk, tpassed>>
    /\ UNCHANGED <<storeVars, scanVars, uiVars, tempVars, browserVars, walkVars, progVars>>

\* The user clicks the check box of an item; only an item with check-state
\* data shows one.
TreeToggle ==
    /\ \E it \in TreeItems :
        /\ Flagged(tview, it)
        /\ tview[it].check # "unset"
        /\ tview' = [tview EXCEPT ![it].check = IF @ = "checked" THEN "unchecked" ELSE "checked"]
    /\ UNCHANGED <<tshape, tdisk, tpassed>>
    /\ UNCHANGED <<storeVars, scanVars, uiVars, tempVars, browserVars, walkVars, progVars>>

\* _delete_selected_duplicates with a selection, confirmed: the paths of the
\* checked items are handed to delete_selected_duplicates, which removes
\* those on disk except the ones os.remove fails for (locked); when a file
\* was deleted the tree is refreshed.
TreeDeleteSelected ==
    /\ SelectedItems(tview) # {}
    /\ \E locked \in SUBSET SelectedItems(tview) :
        LET selected == SelectedItems(tview)
            deleted == (selected \cap tdisk) \ locked
        IN /\ tpassed' = tpassed \cup selected
           /\ tdisk' = tdisk \ deleted
           /\ tview' = IF deleted # {} THEN Refreshed(tview, selected) ELSE tview
    /\ UNCHANGED tshape
    /\ UNCHANGED <<storeVars, scanVars, uiVars, tempVars, browserVars, walkVars, progVars>>

NextTree ==
    \/ TreeShow
    \/ TreeSelectAll
    \/ TreeSelectNone
    \/ TreeToggle
    \/ TreeDeleteSelected

vars == <<storeVars, scanVars, uiVars, tempVars, browserVars, walkVars, progVars, treeVars>>

\* The mutator at rest, for the behaviours of the duplicate index.
StoreIdle ==
    /\ db = Database({"cookies"}, 1)
    /\ backup = Absent
    /\ conn = "closed"
    /\ pending = {}
    /\ spc = "idle"
    /\ stype = "cache"
    /\ sfault = "none"
    /\ stmt = 1
    /\ sfailed = "none"
    /\ sraised = "none"
    /\ spre = db
    /\ slog = <<>>

\* The duplicate index at rest, for the behaviours of the mutator.
ScanIdle ==
    /\ ScanInitCommon
    /\ env = 0
    /\ scansLeft = 0
    /\ delsLeft = 0
    /\ filler = 0
    /\ fs = [p \in Paths |-> NoFile]

\* A small tree that other processes change while it is scanned once.
RaceInit ==
    /\ ScanInitCommon
    /\ env = MaxEnv
    /\ scansLeft = 1
    /\ delsLeft = 0
    /\ filler = 0
    /\ fs \in [Paths -> {File("X", n, m) : n \in {2 * DefaultMinSize, MaxFileSize, MaxFileSize + 1},
                                           m \in 1..MaxMtime}]

Init == StoreIdle /\ ScanInit /\ UiIdle /\ TempIdle /\ BrowserIdle /\ WalkIdle /\ ProgressIdle /\ TreeIdle

Next ==
    \/ ScanStart
    \/ ScanFile
    \/ ScanFiller
    \/ ScanFinish

\* The duplicate index scanning a quiet tree.
Spec == Init /\ [][Next]_vars

InitDelete == StoreIdle /\ DeleteInit /\ UiIdle /\ TempIdle /\ BrowserIdle /\ WalkIdle /\ ProgressIdle /\ TreeIdle

NextDelete ==
    \/ ScanStart
    \/ ScanFile
    \/ ScanFiller
    \/ ScanFinish
    \/ DeleteSelected

\* The duplicate index scanning a quiet tree and deleting files of it.
SpecDelete == InitDelete /\ [][NextDelete]_vars

InitRace == StoreIdle /\ RaceInit /\ UiIdle /\ TempIdle /\ BrowserIdle /\ WalkIdle /\ ProgressIdle /\ TreeIdle

NextRace ==
    \/ ScanStart
    \/ ScanFile
    \/ ScanFiller
    \/ ScanFinish
    \/ EnvTouch
    \/ EnvGrow
    \/ EnvRemove

\* The duplicate index on a tree that changes during the scan.
SpecRace == InitRace /\ [][NextRace]_vars

InitStore == StoreInit /\ ScanIdle /\ UiIdle /\ TempIdle /\ BrowserIdle /\ WalkIdle /\ ProgressIdle /\ TreeIdle

\* The structured-store mutator.
SpecStore == InitStore /\ [][StoreNext]_vars

InitUi == StoreIdle /\ ScanIdle /\ UiInit /\ TempIdle /\ BrowserIdle /\ WalkIdle /\ ProgressIdle /\ TreeIdle

\* The duplicate-finder dialog and its scan threads.
SpecUi == InitUi /\ [][NextUi]_vars

InitTemp == StoreIdle /\ ScanIdle /\ UiIdle /\ TempInit /\ BrowserIdle /\ WalkIdle /\ ProgressIdle /\ TreeIdle

\* The temporary-file cleaner.
SpecTemp == InitTemp /\ [][NextTemp]_vars

InitBrowser == StoreIdle /\ ScanIdle /\ UiIdle /\ TempIdle /\ BrowserInit /\ WalkIdle /\ ProgressIdle /\ TreeIdle

\* The browser cleaner.
SpecBrowser == InitBrowser /\ [][NextBrowser]_vars

InitWalk == StoreIdle /\ ScanIdle /\ UiIdle /\ TempIdle /\ BrowserIdle /\ WalkInit /\ ProgressIdle /\ TreeIdle

\* The filters of the walk.
SpecWalk == InitWalk /\ [][NextWalk]_vars

InitProgress == StoreIdle /\ ScanIdle /\ UiIdle /\ TempIdle /\ BrowserIdle /\ WalkIdle /\ ProgressInit /\ TreeIdle

\* The progress reports of a scan.
SpecProgress == InitProgress /\ [][NextProgress]_vars

\* The results tree of one scan under the buttons of the dialog.
InitTree == StoreIdle /\ ScanIdle /\ UiIdle /\ TempIdle /\ BrowserIdle /\ WalkIdle /\ ProgressIdle /\ TreeInit

SpecTree == InitTree /\ [][NextTree]_vars

(***************************************************************************)
(* Properties of the structured-store mutator (SpecStore).                 *)
(***************************************************************************)

\* The call has ended after its backup copy succeeded and a later step failed.
FailedAfterBackup == spc = "done" /\ Len(slog) >= 1 /\ slog[1] = "copy" /\ sfailed # "none"

\* C1: when the backup copy succeeded and a later step (connect, a delete
\* statement, the commit, the removal of the backup) fails, the store file
\* after the call is the file it was before the call and the failure is
\* raised to the caller.
C1_RestoredAndReraised == FailedAfterBackup => (db = spre /\ sraised = sfailed)

\* The removal of the backup failed after a commit that changed the store,
\* and the call ended with the store as it was before.
C1_Witness ==
    /\ FailedAfterBackup
    /\ sfailed = "remove"
    /\ Committed(spre, stype) # spre
    /\ db = spre

\* C2: whatever step fails, the backup copy included, and whether or not a
\* .backup file of an earlier run exists, the store file after the call is
\* the file before the call or the fully committed result.
C2_PreOrCommitted == spc = "done" => (db = spre \/ db = Committed(spre, stype))

\* C3: the steps are strictly ordered: the backup copy is complete before
\* the store is opened or a statement is executed, the commit follows every
\* delete statement of the category, and the backup is removed only after
\* the commit.
C3_StrictOrder ==
    \A i \in 1..Len(slog) :
        /\ slog[i] \in {"connect", "delete"} => \E j \in 1..(i - 1) : slog[j] = "copy"
        /\ slog[i] = "commit" =>
            /\ \A j \in 1..Len(slog) : slog[j] = "delete" => j < i
            /\ Cardinality({j \in 1..(i - 1) : slog[j] = "delete"}) = Len(Statements(stype))
        /\ slog[i] = "remove" => \E j \in 1..(i - 1) : slog[j] = "commit"

\* A history call ran all its steps.
C3_Witness ==
    /\ spc = "done"
    /\ stype = "history"
    /\ slog = <<"copy", "connect", "delete", "delete", "commit", "close", "remove">>

Members(group) == {group.files[k].path : k \in 1..Len(group.files)}

NonFirst(group) == {group.files[k].path : k \in 2..Len(group.files)}

\* C5: every group of the mapping scan_directory returns and stores has at
\* least 2 members, every member's digest is the key of its group, no key
\* occurs twice, and a digest with one file is not surfaced.
C5_GroupsOfTwoWithOneDigest ==
    /\ \A i \in 1..Len(duplicates_found) :
        /\ Len(duplicates_found[i].files) >= 2
        /\ \A k \in 1..Len(duplicates_found[i].files) :
            hashlog[duplicates_found[i].files[k].path].digest = duplicates_found[i].hash
        /\ \A j \in 1..Len(duplicates_found) : duplicates_found[j].hash = duplicates_found[i].hash => j = i
    /\ phase = "done" =>
        /\ result = duplicates_found
        /\ \A i \in 1..Len(file_hashes) :
            Len(file_hashes[i].files) = 1 => file_hashes[i].hash \notin Keys(duplicates_found)

\* A scan returned one group of two while a third file was hashed alone.
C5_Witness ==
    /\ phase = "done"
    /\ Len(duplicates_found) = 1
    /\ Len(duplicates_found[1].files) = 2
    /\ \E i \in 1..Len(file_hashes) : Len(file_hashes[i].files) = 1

\* Every group is ordered by the modification times its members have in
\* the tree, newest first.
LiveNewestFirst(groups, tree) ==
    \A i \in 1..Len(groups) : \A k \in 1..(Len(groups[i].files) - 1) :
        tree[groups[i].files[k].path].mtime >= tree[groups[i].files[k + 1].path].mtime

\* The order files.sort gives: at the moment scan_directory returns, every
\* returned group is ordered by the modification times the files then have.
SortedByLiveTimes == [][(phase = "scanning" /\ phase' = "done") => LiveNewestFirst(result', fs')]_vars

\* C6: in every group a scan returns, the members are in the order of their
\* modification times, newest first: the time recorded for member i is not
\* older than the time recorded for member i + 1.
C6_NewestFirst ==
    phase = "done" =>
        \A i \in 1..Len(result) : \A k \in 1..(Len(result[i].files) - 1) :
            result[i].files[k].modified >= result[i].files[k + 1].modified

InGroups(p, groups) == \E i \in 1..Len(groups) : p \in Members(groups[i])

\* C7: a file that is larger than the cutoff when calculate_file_hash checks
\* its size, or of which more than the cutoff is read, gets no digest and is
\* in no bucket and no group; a file of at most the cutoff size, the cutoff
\* itself included, gets a digest.
C7_OversizeNeverHashed ==
    \A p \in Paths :
        /\ (hashlog[p].checked > MaxFileSize \/ hashlog[p].read > MaxFileSize) =>
            /\ hashlog[p].digest = None
            /\ ~InGroups(p, file_hashes)
            /\ ~InGroups(p, duplicates_found)
        /\ (hashlog[p].checked >= 0 /\ hashlog[p].checked <= MaxFileSize /\ hashlog[p].read <= MaxFileSize) =>
            hashlog[p].digest # None

\* Two files of exactly the cutoff size form a group, and a third file grew
\* past the cutoff while it was read.
C7_Witness ==
    /\ phase = "done"
    /\ \E i \in 1..Len(result) : \A k \in 1..Len(result[i].files) : result[i].files[k].size = MaxFileSize
    /\ \E p \in Paths : hashlog[p].checked <= MaxFileSize /\ hashlog[p].read > MaxFileSize

RECURSIVE SizesFrom(_, _)
\* The sizes of the members k, k + 1, ... of a group, added up.
SizesFrom(files, k) == IF k > Len(files) THEN 0 ELSE files[k].size + SizesFrom(files, k + 1)

RECURSIVE NonFirstBytes(_)
\* The sizes of the members 2, 3, ... of every group, added up.
NonFirstBytes(groups) ==
    IF groups = <<>> THEN 0
    ELSE SizesFrom(groups[1].files, 2) + NonFirstBytes(Tail(groups))

\* a.txt and b.txt hold the same bytes, b.txt is newer, c.txt holds other
\* bytes, and a.txt and b.txt are candidates that can be hashed.
ScenarioA ==
    /\ filler = 0
    /\ \A p \in Paths : fs[p].exists
    /\ fs["a.txt"].tag = fs["b.txt"].tag /\ fs["a.txt"].size = fs["b.txt"].size
    /\ fs["b.txt"].mtime > fs["a.txt"].mtime
    /\ fs["c.txt"].tag # fs["a.txt"].tag \/ fs["c.txt"].size # fs["a.txt"].size
    /\ fs["a.txt"].size >= args.min_size /\ fs["a.txt"].size <= MaxFileSize

\* C8: after a completed scan total_duplicate_size is the sum of the sizes of
\* the non-first members of the returned groups; two files of the same
\* content and one of another give one group of 2, the newer file first, and
\* the size of the older file as reclaimable bytes.
C8_ReclaimableBytes ==
    phase = "done" =>
        /\ total_duplicate_size = NonFirstBytes(result)
        /\ ScenarioA =>
            /\ Len(result) = 1
            /\ Len(result[1].files) = 2
            /\ result[1].files[1].path = "b.txt"
            /\ result[1].files[2].path = "a.txt"
            /\ total_duplicate_size = fs["a.txt"].size

\* A scan of the scenario's tree has returned.
C8_Witness == phase = "done" /\ ScenarioA /\ total_duplicate_size = fs["a.txt"].size /\ Len(result) = 1

\* The second of two completed scans with the same arguments has returned.
Rescanned == phase = "done" /\ prev.has /\ prev.args = args

\* C9 as stated: when all non-first members of a group were deleted by
\* delete_selected_duplicates and the tree is scanned again with the same
\* arguments, the second result has no group under the digest of that group.
C9_DigestNotReproduced ==
    Rescanned =>
        \A i \in 1..Len(prev.result) :
            NonFirst(prev.result[i]) \subseteq prev.removed => prev.result[i].hash \notin Keys(result)

\* C9, amended: when all non-first members of a group were deleted by
\* delete_selected_duplicates and the tree is scanned again with the same
\* arguments, no group of the second result holds a deleted member or has the
\* member list of the group; and when the first scan ended below the ceiling
\* of 10,000 scanned files, the second result has no group under the digest
\* of the group either.
C9_GroupNotReproduced ==
    Rescanned =>
        \A i \in 1..Len(prev.result) :
            NonFirst(prev.result[i]) \subseteq prev.removed =>
                /\ \A j \in 1..Len(result) :
                    /\ result[j].files # prev.result[i].files
                    /\ Members(result[j]) \cap NonFirst(prev.result[i]) = {}
                /\ prev.scanned < MaxScanFiles => prev.result[i].hash \notin Keys(result)

\* The non-first member of a group was deleted and the tree scanned again.
C9_Witness ==
    /\ Rescanned
    /\ scanned_files > 0
    /\ prev.scanned < MaxScanFiles
    /\ \E i \in 1..Len(prev.result) : NonFirst(prev.result[i]) \subseteq prev.removed

\* C23: whenever get_duplicate_summary is called, total_duplicates is the sum
\* of (group size - 1) over the groups stored at that moment,
\* duplicate_groups is the number of stored groups, and the savings are the
\* sum of the sizes of the non-first members of exactly those groups; with
\* no group stored every count is zero.
C23_SummaryOfStoredGroups ==
    LET summary == get_duplicate_summary(Session) IN
        /\ summary.duplicate_groups = Len(duplicates_found)
        /\ summary.total_duplicates =
               Cardinality({<<i, k>> \in (1..Len(duplicates_found)) \X (2..Cardinality(Paths)) :
                               k <= Len(duplicates_found[i].files)})
        /\ summary.potential_savings = NonFirstBytes(duplicates_found)
        /\ duplicates_found = <<>> =>
               summary.total_duplicates = 0 /\ summary.duplicate_groups = 0 /\ summary.potential_savings = 0

\* A group of three files is stored and the summary counts two duplicates.
C23_Witness ==
    /\ Len(duplicates_found) = 1
    /\ Len(duplicates_found[1].files) = 3
    /\ get_duplicate_summary(Session).total_duplicates = 2
    /\ get_duplicate_summary(Session).potential_savings > 0

\* The files of the tree that pass the filters of the two loops.
Candidates == Cardinality({p \in Paths : IsCandidate(fs[p], args.min_size)}) + filler

\* C10: scanned_files and total_files never exceed 10,000; a scan of a tree
\* with more than 10,000 candidate files ends, without an exception, with
\* scanned_files = 10000 and total_files = 10000.
C10_Ceilings ==
    /\ scanned_files <= 10000
    /\ total_files <= 10000
    /\ phase # "raised"
    /\ phase = "scanning" => ENABLED (ScanFile \/ ScanFiller \/ ScanFinish)
    /\ (phase = "done" /\ Candidates > 10000) => (scanned_files = 10000 /\ total_files = 10000)

\* A scan of a tree of more than 10,000 candidates has returned.
C10_Witness == phase = "done" /\ Candidates > 10000 /\ scanned_files = 10000

(***************************************************************************)
(* Properties of delete_selected_duplicates (SpecDelete).                  *)
(***************************************************************************)

\* The paths of a list.
Listed(selected) == {selected[i] : i \in 1..Len(selected)}

\* The files the last call took from the tree.
Gone == {p \in Paths : del_call.before[p].exists /\ ~fs[p].exists}

RECURSIVE SizeOf(_, _)
\* The sizes the files of a set had in a tree, added up.
SizeOf(set, tree) ==
    IF set = {} THEN 0
    ELSE LET p == CHOOSE q \in set : TRUE IN tree[p].size + SizeOf(set \ {p}, tree)

\* The turns of the loop whose path exists when the turn begins: the path
\* existed before the call and cannot be removed, or this is its first turn.
LiveTurns ==
    {i \in 1..Len(del_call.selected) :
        /\ del_call.before[del_call.selected[i]].exists
        /\ \/ del_call.selected[i] \in del_call.locked
           \/ \A j \in 1..(i - 1) : del_call.selected[j] # del_call.selected[i]}

\* C11: delete_selected_duplicates goes through every path of the list: a
\* path whose removal fails gets an entry in errors, in the order of the
\* list, and every path behind it that exists and can be removed is removed;
\* the call returns deleted_files = the number of files removed and a freed
\* size = the sum of the sizes those files had.
C11_DeleteResult ==
    del_call.made =>
        /\ del_result.errors = SelectSeq(del_call.selected,
                                         LAMBDA p : p \in del_call.locked /\ del_call.before[p].exists)
        /\ \A p \in Listed(del_call.selected) :
            (del_call.before[p].exists /\ p \notin del_call.locked) => ~fs[p].exists
        /\ del_result.deleted_files = Cardinality(Gone)
        /\ del_result.deleted_size = SizeOf(Gone, del_call.before)

\* The removal of the first path of a list failed and the second path was removed.
C11_Witness ==
    /\ del_call.made
    /\ Len(del_call.selected) >= 2
    /\ del_call.selected[1] \in del_call.locked
    /\ del_call.selected[2] \in Gone
    /\ Len(del_result.errors) = 1

\* C12: delete_selected_duplicates removes no file whose path is not in the
\* list, and a path of the list that does not exist when its turn comes
\* (it was missing before the call, or an earlier turn removed it) is neither
\* counted in deleted_files nor entered in errors.
C12_OnlyListedAndMissingSkipped ==
    del_call.made =>
        /\ Gone \subseteq Listed(del_call.selected)
        /\ \A p \in Paths : ~del_call.before[p].exists => ~fs[p].exists
        /\ del_result.deleted_files + Len(del_result.errors) = Cardinality(LiveTurns)
        /\ \A i \in 1..Len(del_result.errors) : del_call.before[del_result.errors[i]].exists

\* A call was handed the same path twice: it removed the file once and
\* reported no error.
C12_Witness ==
    /\ del_call.made
    /\ Len(del_call.selected) = 2
    /\ del_call.selected[1] = del_call.selected[2]
    /\ del_result.deleted_files = 1
    /\ del_result.errors = <<>>
    /\ \E p \in Paths : fs[p].exists /\ p \notin Listed(del_call.selected)

\* C15: a scan of a tree in which a candidate file vanishes, at whatever
\* moment of the scan, does not raise: scan_directory is never left by an
\* exception.
C15_ScanNeverRaises == phase # "raised"


(***************************************************************************)
(* Properties of the duplicate-finder dialog (SpecUi).                     *)
(***************************************************************************)

\* C13: delete_selected_duplicates is performed only in the Ready state:
\* never before a scan has completed and never while a worker is executing
\* scan_directory.
C13_DeleteOnlyWhenReady == ui_delete.made => (ui_delete.ready /\ ui_delete.inflight = 0)

\* C14: at most one worker executes scan_directory on the DuplicateFinder of
\* the window at any time.
C14_OneWorker == Cardinality(Running) <= 1

(***************************************************************************)
(* Properties of clean_temp_files (SpecTemp).                              *)
(***************************************************************************)

\* The file was older than the configured minimum when the call looked at it.
OldEnough(f) == f.readable /\ f.age > min_file_age_hours

\* C16: clean_temp_files never deletes a file whose age is not greater than
\* the configured minimum: os.remove is attempted only for a file whose age
\* was read and exceeds the minimum, and every file that was not older than
\* the minimum (or whose age cannot be read) when the call began still
\* exists, whether or not it matches the denylist.
C16_YoungNeverDeleted ==
    /\ tlast.attempts > 0 => OldEnough(tlast.file)
    /\ \A n \in TempNames : (tbefore[n].exists /\ ~OldEnough(tbefore[n])) => tfs[n].exists

\* A call returned that deleted a file and left an unlocked, undenylisted
\* file exactly as old as the minimum, and one that left a file whose age
\* cannot be read.
C16_Witness ==
    /\ tpc = "returned"
    /\ cleaned_files = 1
    /\ \E n \in TempNames :
        /\ tbefore[n].exists /\ tfs[n].exists
        /\ ~tbefore[n].critical
        /\ tbefore[n].fate = [locks |-> 0, then |-> "free"]
        /\ \/ tbefore[n].readable /\ tbefore[n].age = min_file_age_hours
           \/ ~tbefore[n].readable

\* C17: a file still in use on all MaxRetries attempts is counted as skipped:
\* its turn adds one to skipped_files and nothing to permission_errors,
\* in_use_errors or the errors list.
C17_LockedIsSkipped ==
    (tlast.attempts = MaxRetries /\ tlast.file.fate.locks >= MaxRetries)
        => /\ skipped_files = tlast.before.skipped_files + 1
           /\ permission_errors = tlast.before.permission_errors
           /\ in_use_errors = tlast.before.in_use_errors
           /\ errors = tlast.before.errors

\* C27: _delete_file_with_retry calls os.remove at most MaxRetries times; an
\* attempt is followed by another one only when it met an in-use error, so
\* the calls made are the in-use errors met plus one, up to MaxRetries, and
\* any other error ends them at once; a file that is free on the 2nd or the
\* 3rd attempt is deleted and counted as deleted.
C27_BoundedRetry ==
    tlast.attempts > 0 =>
        /\ tlast.attempts <= MaxRetries
        /\ tlast.attempts = Min(tlast.file.fate.locks + 1, MaxRetries)
        /\ (tlast.file.fate.locks = 0 /\ tlast.file.fate.then # "free") => tlast.attempts = 1
        /\ (tlast.file.fate.locks \in 1..(MaxRetries - 1) /\ tlast.file.fate.then = "free") =>
            /\ tlast.result = "True"
            /\ ~tfs[tlast.name].exists
            /\ cleaned_files = tlast.before.files_deleted + 1
            /\ skipped_files = tlast.before.skipped_files
            /\ permission_errors = tlast.before.permission_errors

\* A file in use on the first two attempts was deleted on the third.
C27_Witness ==
    /\ tlast.attempts = MaxRetries
    /\ tlast.file.fate = [locks |-> MaxRetries - 1, then |-> "free"]
    /\ tlast.result = "True"
    /\ ~tfs[tlast.name].exists
    /\ cleaned_files = tlast.before.files_deleted + 1

\* os.remove removes the file, at once or after the lock on it is released.
Deletable(f) == f.fate.then = "free" /\ f.fate.locks < MaxRetries

\* The files the roots held when the call began.
Held == {n \in TempNames : tbefore[n].exists}

\* Scenario D: the roots hold old files only, each of them denylisted or
\* eligible and deletable.
ScenarioD ==
    \A n \in Held : OldEnough(tbefore[n]) /\ (tbefore[n].critical \/ Deletable(tbefore[n]))

\* C18: over roots that hold d old denylisted files and e old, eligible,
\* deletable files, the result reports files_deleted = e, skipped_files = d
\* and no errors, and every denylisted file still exists; no os.remove is
\* ever attempted on a denylisted file.
C18_DenylistedSkipped ==
    /\ tlast.attempts > 0 => ~tlast.file.critical
    /\ (tpc = "returned" /\ ScenarioD)
        => /\ CleanResult.files_deleted = Cardinality({n \in Held : ~tbefore[n].critical})
           /\ CleanResult.skipped_files = Cardinality({n \in Held : tbefore[n].critical})
           /\ CleanResult.errors = <<>>
           /\ \A n \in Held : tbefore[n].critical => tfs[n].exists

(***************************************************************************)
(* Properties of clean_browser_data (SpecBrowser).                         *)
(***************************************************************************)

\* C19: for a detected browser the call returns success = true whatever
\* failed; a turn that adds an entry to errors leaves cleaned_types,
\* files_deleted and the freed size as they were; for a browser that was not
\* detected the call returns success = false and leaves the disk alone.
C19_PartialSuccess ==
    /\ bresult.returned => (bresult.success <=> browser_name \in browsers)
    /\ (bresult.returned /\ browser_name \notin browsers) => bdisk = bpre
    /\ (blast.branch # "none" /\ Len(berrors) > Len(blast.errors))
        => /\ cleaned_types = blast.types
           /\ bcleaned_files = blast.files
           /\ bcleaned_size = blast.size

\* C20: for every detected browser, a turn for cookies, history or downloads
\* whose path holds a store goes through the mutator: the store file still
\* exists afterwards and the tables of the other categories keep their rows.
C20_StoreNeverRemoved ==
    (blast.data_type \in {"cookies", "history", "downloads"} /\ blast.pre.kind = "file")
        => /\ blast.branch = "mutator"
           /\ bdisk[blast.path].kind = "file"
           /\ \A t \in Tables :
                (\A i \in 1..Len(Statements(blast.data_type)) :
                    Statements(blast.data_type)[i] # t)
                    => bdisk[blast.path].store.rows[t] = blast.pre.store.rows[t]

(***************************************************************************)
(* Properties of the filters of the walk (SpecWalk).                       *)
(***************************************************************************)

\* The filters every file of a group passed, given the names `around` of the
\* directories the file must not be inside.
Filtered(f, around) ==
    /\ ~StartsWithDot(f.name)
    /\ \A i \in 1..Len(around) : Lower(around[i]) \notin Denylist
    /\ f.size >= wargs.min_size

\* C21: every file of a returned group has a name without a leading dot, is
\* inside no directory with a denylisted name, has at least min_size bytes
\* and, when an extension set is given, a lower-cased suffix in it.
C21_FiltersAnyDirectory ==
    \A n \in wmembers :
        /\ Filtered(wtree[n], <<wroot>> \o wtree[n].dirs)
        /\ wargs.given => Lower(Suffix(wtree[n].name)) \in wargs.extensions

\* What the walk does ensure: the filters hold for the directories below the
\* scanned root, which are excluded from descent, and for a non-empty
\* extension set.
FiltersBelowRoot ==
    \A n \in wmembers :
        /\ Filtered(wtree[n], wtree[n].dirs)
        /\ (wargs.given /\ wargs.extensions # {})
                => Lower(Suffix(wtree[n].name)) \in wargs.extensions

(***************************************************************************)
(* Properties of the progress reports (SpecProgress).                      *)
(***************************************************************************)

\* C22: the callback has been called once for every multiple of
\* ProgressEvery the counter reached; each call carries
\* floor(scanned / min(total, MaxScanFiles) * 100) clamped to 100, a value in
\* 0..100 that is not below the one before it; the divisor is never zero.
C22_ProgressPercent ==
    /\ pemit.count = pscanned \div ProgressEvery
    /\ ppc = "scanning" => Min(ptotal, MaxScanFiles) > 0
    /\ pemit.count > 0 =>
        /\ pemit.percent = Min((100 * pemit.scanned) \div Min(ptotal, MaxScanFiles), 100)
        /\ pemit.percent \in 0..100
        /\ pemit.percent >= pemit.prev

\* What the reports do ensure: cadence, range, order and a non-zero divisor.
ProgressInRange ==
    /\ pemit.count = pscanned \div ProgressEvery
    /\ ppc = "scanning" => Min(ptotal, MaxScanFiles) > 0
    /\ pemit.count > 0 => (pemit.percent \in 0..100 /\ pemit.percent >= pemit.prev)

(***************************************************************************)
(* Properties of the session of the duplicate index.                       *)
(***************************************************************************)

\* The mapping the scan before the last one returned, and the mapping the
\* last one returned, as their callers hold them now.
EarlierMapping == held[Len(held) - 1].now

LaterMapping == held[Len(held)].now

\* The second of two completed scans of an unchanged tree with the same
\* arguments has returned.
RescannedUnchanged == Rescanned /\ prev.removed = {} /\ Len(held) >= 2

\* C28: scan_directory resets every session field at its start, so that two
\* consecutive scans of an unchanged tree with the same arguments return
\* equal groups, an equal scanned count and equal reclaimable bytes, whatever
\* an earlier scan left behind.
C28_EqualRescans ==
    RescannedUnchanged =>
        /\ EarlierMapping = LaterMapping
        /\ prev.scanned = scanned_files
        /\ prev.size = total_duplicate_size

\* The counters of the two scans are equal, and so are the groups each scan
\* held when it returned.
RescanEqualAtReturn ==
    RescannedUnchanged =>
        /\ held[Len(held) - 1].then = held[Len(held)].then
        /\ prev.result = result
        /\ prev.scanned = scanned_files
        /\ prev.size = total_duplicate_size

\* C29: the mapping a completed scan returned is a stable snapshot: starting
\* another scan does not change the contents of a mapping that was returned
\* earlier.
C29_StableSnapshot == \A i \in 1..Len(held) : held[i].now = held[i].then

\* C30: delete_selected_duplicates changes no session state: the stored
\* groups, the scanned counter, the total counter and the reclaimable bytes
\* are what they were before the call, and the summary after a deletion
\* still reports the figures of the scan, deleted members included.
C30_DeleteKeepsSession ==
    del_call.made =>
        /\ Session = del_call.session
        /\ get_duplicate_summary(Session) = get_duplicate_summary(del_call.session)
        /\ get_duplicate_summary(Session).potential_savings = NonFirstBytes(del_call.session.duplicates_found)

\* A non-first member of a stored group was deleted, and the summary still
\* counts it.
C30_Witness ==
    /\ del_call.made
    /\ \E i \in 1..Len(duplicates_found) : NonFirst(duplicates_found[i]) \cap Gone # {}
    /\ get_duplicate_summary(Session).total_duplicates > 0
    /\ get_duplicate_summary(Session).potential_savings > 0

(***************************************************************************)
(* Properties of the scan threads of the dialog (SpecUi).                  *)
(***************************************************************************)

\* C24: once the user cancels a running scan, the mapping of the cancelled
\* scan is never delivered to _on_scan_completed nor displayed.
C24_CancelledNeverDelivered ==
    \A w \in Workers : workers[w].cancelled => (~workers[w].delivered /\ ~workers[w].displayed)

\* The thread a cancel is honoured on: the one terminated by update_scan_progress
\* delivers nothing.
TerminatedNeverDelivered ==
    \A w \in Workers : workers[w].state = "terminated" => ~workers[w].delivered

\* The signals of worker w that wait in the event queue, in order.
SignalsOf(w) == SelectSeq(queue, LAMBDA m : m.from = w)

\* C25: every scan thread that ended without being terminated has emitted
\* exactly one scan_completed, and no progress_updated of a thread follows
\* its scan_completed.
C25_ExactlyOneCompletion ==
    \A w \in Workers :
        /\ workers[w].state \in {"finished", "failed"} => workers[w].completions = 1
        /\ \A i, j \in 1..Len(SignalsOf(w)) :
            (SignalsOf(w)[i].kind = "completed" /\ SignalsOf(w)[j].kind = "progress") => j < i

\* What run does ensure: at most one scan_completed, one when
\* scan_directory returns, and no progress_updated behind it.
AtMostOneCompletion ==
    \A w \in Workers :
        /\ workers[w].completions <= 1
        /\ workers[w].state = "finished" => workers[w].completions = 1
        /\ workers[w].state = "running" => workers[w].completions = 0
        /\ \A i, j \in 1..Len(SignalsOf(w)) :
            (SignalsOf(w)[i].kind = "completed" /\ SignalsOf(w)[j].kind = "progress") => j < i


(***************************************************************************)
(* Properties of the results tree (SpecTree).                              *)
(***************************************************************************)

\* C26: under every sequence of Select All, Select None, check-box toggles
\* and Delete Selected on the results of one scan, the first (KEEP) file of
\* a group is never in the list handed to delete_selected_duplicates, and
\* every group of the results keeps at least one file on disk.
C26_KeepNeverPassed ==
    /\ \A it \in tpassed : it[2] # 1
    /\ \A g \in 1..Len(tshape) : \E it \in tdisk : it[1] = g

\* What the tree does ensure: as long as neither Select All nor Select None
\* was pressed, the (KEEP) items have no check box and are not handed over.
KeepUntouchedUntilSelect ==
    (\A it \in TreeItems : (tview[it].present /\ it[2] = 1) => tview[it].check = "unset")
        => \A it \in TreeItems : (tview[it].present /\ it[2] = 1) => it \notin SelectedItems(tview)

====
